---------------------------- MODULE Spec2Model ----------------------------
(***************************************************************************)
(* A model of the lifecycle / priority core of the VoipStudio CLI:         *)
(* the operation retry queue (OperationQueue), the call-outcome handlers,  *)
(* promote / demote, the tracked edits and their ledger, the flat-file     *)
(* save, the contact-file import and the priority views.                   *)
(*                                                                         *)
(* Strings the program builds (dates, timestamps, notes) are kept as       *)
(* strings; a value the environment supplies (the answer of the calendar   *)
(* collaborator, whether the store accepts an update, what the operator    *)
(* types) is drawn with \E from a small set.                               *)
(***************************************************************************)
EXTENDS Integers, Sequences, FiniteSets, TLC

VARIABLES
    data,             \* VStudioCLI.data: the session's list of records
    current_index,    \* VStudioCLI.current_index (0-based, as in the code)
    editing,          \* index of the record open in quick-edit mode, -1 if none
    calendar_client,  \* TRUE iff VStudioCLI.calendar_client is connected
    db_manager,       \* "none" (no adapter) | "mongodb" | "csv" (adapter backends)
    operations,       \* OperationQueue.operations
    queue_file,       \* content of operation_queue.json
    archive,          \* rows appended to archive.csv
    edit_history,     \* the edit_history collection, oldest first
    db_contacts,      \* the adapter's stored contacts, by contact id
    csv_file,         \* content of the contact CSV file
    tmp_file,         \* content of the .tmp file beside it
    backup_file,      \* content of the latest backup copy
    save_pc,          \* position inside _save_to_csv_file / save_data
    csv_rows,         \* rows of the file being imported
    issues,           \* _load_csv: the issues list (one text per entry)
    contacts_data,    \* CRMDataManager.contacts_data (flat-file backend)
    today,            \* datetime.now().date() as a day of January 2024
    view_result,      \* what the last view query returned
    view_type,        \* the view last asked for
    csv_headers,      \* CRMDataManager.csv_headers: the columns of the file
    last,             \* observer: what the last handler did
    next_qid,         \* observer: number of operations enqueued so far
    tried,            \* observer: collaborator invocations per queued operation
    removed,          \* observer: how each queued operation left the queue
    phone_call,       \* _make_call / _monitor_call: current_call_id and the poll loop
    running,          \* VStudioCLI.running
    session,          \* where run() stands: "loop" | "calendar" | "ended" | "error"
    original,         \* _work_on_calendar_contact: original_data, original_index
    config,           \* load_database_config: what it read and what it returned
    adapter,          \* CRMDataManager: config.use_mongodb, the mongodb handle
    current_view,     \* VStudioCLI.current_view
    loop_pc           \* position inside one iteration of _main_loop

queueVars   == <<operations, queue_file>>
saveVars    == <<csv_file, tmp_file, backup_file, save_pc>>
importVars  == <<csv_rows, issues>>
viewVars    == <<contacts_data, today, view_result, view_type, csv_headers>>
ghostQueue  == <<next_qid, tried, removed>>
callVars    == <<phone_call, running, session, original>>
setupVars   == <<config, adapter>>
loopVars    == <<current_view, loop_pc>>
sideVars    == <<phone_call, running, session, original, config, adapter,
                 current_view, loop_pc>>
vars == <<data, current_index, editing, calendar_client, db_manager, operations,
          queue_file, archive, edit_history, db_contacts, csv_file, tmp_file,
          backup_file, save_pc, csv_rows, issues, contacts_data, today,
          view_result, view_type, csv_headers, last, next_qid, tried, removed,
          phone_call, running, session, original, config, adapter,
          current_view, loop_pc>>

---------------------------------------------------------------------------
(* Status constants and the terminal set.                                  *)

STATUS_NEW            == "new"
STATUS_BAD_NUMBER     == "bad_number"
STATUS_NO_ANSWER      == "no_answer"
STATUS_CALLBACK       == "callback"
STATUS_MEETING_BOOKED == "meeting_booked"
STATUS_DO_NOT_CALL    == "do_not_call"
STATUS_DELETED        == "deleted"
STATUS_CLOSE_WON      == "close_won"
STATUS_CLOSE_LOST     == "close_lost"
STATUS_INVALID_PHONE  == "invalid_phone"

TERMINAL_STATUSES ==
    {STATUS_DELETED, STATUS_DO_NOT_CALL, STATUS_BAD_NUMBER,
     STATUS_CLOSE_WON, STATUS_CLOSE_LOST}

\* add_calendar_operation: 'max_attempts': 3
max_attempts == 3

---------------------------------------------------------------------------
(* Bounds of the model.                                                    *)

MaxEnqueue == 2     \* operations ever enqueued in one behaviour
MaxNotes   == 1     \* note entries a record can collect
MaxHistory == 2     \* entries the edit-history ledger can collect
MaxContacts == 2    \* contacts in the set a view is asked over
MaxRows    == 2     \* rows of an imported contact file
MaxArchived == 2    \* archive rows written before the calendar is entered
MaxLoopChanges == 2 \* deletes and demotes in one run of the stepwise main loop

---------------------------------------------------------------------------
(* Dates.  A date string is "2024-01-DD"; a meeting time adds "T14:00".    *)

Days == 10..20

\* date.isoformat()
IsoDate(d) == "2024-01-" \o ToString(d)

\* datetime.isoformat() of a meeting at 14:00 on day d
IsoDateTime(d) == IsoDate(d) \o "T14:00:00"

\* datetime.now().isoformat(): one timestamp per day of the model
NowStamp(d) == IsoDate(d) \o "T09:30:00"

\* datetime.fromisoformat(s).date(): the day, or 0 when parsing raises
ParseDay(s) ==
    IF \E d \in Days : s \in {IsoDate(d), IsoDateTime(d), NowStamp(d)}
    THEN CHOOSE d \in Days : s \in {IsoDate(d), IsoDateTime(d), NowStamp(d)}
    ELSE 0

---------------------------------------------------------------------------
(* Records.                                                                *)

Contact(id, phone, status, cb, mt, ecb, emt) ==
    [external_row_id |-> id, phone_number |-> phone, status |-> status,
     callback_on |-> cb, meeting_at |-> mt, last_call_at |-> "",
     notes |-> <<>>, gcal_callback_event_id |-> ecb,
     gcal_meeting_event_id |-> emt]

NoRecord == Contact("", "", "", "", "", "", "")

\* The event ids the calendar collaborator has handed out or hands out.
EventIds == {"evt123", "evt456", "evt789"}

\* What a calendar call can answer: an event id (create) / true (cancel),
\* nothing (None / False), or an exception.
CalendarAnswers == {"evt789", "none", "throw"}

SeqToSet(s) == {s[i] : i \in 1..Len(s)}

\* record_lookup = {record.get('external_row_id'): record for ...}; .get(id):
\* the position of the last record with that id, 0 when there is none
LookupIndex(records, id) ==
    IF \E i \in 1..Len(records) : records[i].external_row_id = id
    THEN CHOOSE i \in 1..Len(records) :
            /\ records[i].external_row_id = id
            /\ \A j \in (i+1)..Len(records) : records[j].external_row_id # id
    ELSE 0

---------------------------------------------------------------------------
(* OperationQueue.                                                         *)

QueuedOperation(qid, op_type, record_id, when, event_id, event_type) ==
    [qid |-> qid, type |-> "calendar", operation |-> op_type,
     record_id |-> record_id, attempts |-> 0, max_attempts |-> max_attempts,
     data |-> [when |-> when, event_id |-> event_id, event_type |-> event_type]]

\* _process_calendar_operation: answer is what the collaborator does if asked
ProcessCalendarOperation(operation, records, answer) ==
    LET idx     == LookupIndex(records, operation.record_id)
        op_type == operation.operation
        ok      == answer \in EventIds
    IN  IF idx = 0
        THEN [success |-> TRUE, records |-> records, invoked |-> FALSE]
        ELSE IF op_type = "create_callback"
        THEN [success |-> ok, invoked |-> TRUE,
              records |-> IF ok
                          THEN [records EXCEPT ![idx].gcal_callback_event_id = answer]
                          ELSE records]
        ELSE IF op_type = "create_meeting"
        THEN [success |-> ok, invoked |-> TRUE,
              records |-> IF ok
                          THEN [records EXCEPT ![idx].gcal_meeting_event_id = answer]
                          ELSE records]
        ELSE IF op_type = "cancel"
        THEN IF operation.data.event_id = ""
             THEN [success |-> FALSE, records |-> records, invoked |-> FALSE]
             ELSE [success |-> ok, invoked |-> TRUE,
                   records |-> IF ~ok THEN records
                               ELSE IF operation.data.event_type = "callback"
                               THEN [records EXCEPT ![idx].gcal_callback_event_id = ""]
                               ELSE IF operation.data.event_type = "meeting"
                               THEN [records EXCEPT ![idx].gcal_meeting_event_id = ""]
                               ELSE records]
        ELSE [success |-> FALSE, records |-> records, invoked |-> FALSE]

\* process_queue, line 152: is the operation given up after this failure?
GiveUp_OffByOne(operation) == operation.attempts > operation.max_attempts
GiveUp(operation) == operation.attempts >= operation.max_attempts

\* process_queue, the body of "for operation in self.operations" for the
\* operations from position i on; st carries the loop's variables
RECURSIVE ProcessQueueFrom(_, _, _, _, _)
ProcessQueueFrom(ops, i, client, answers, st) ==
    IF i > Len(ops) THEN st
    ELSE
      LET operation == [ops[i] EXCEPT !.attempts = @ + 1]
          res == IF operation.type = "calendar" /\ client
                 THEN ProcessCalendarOperation(operation, st.records, answers[i])
                 ELSE [success |-> FALSE, records |-> st.records, invoked |-> FALSE]
          keep == ~res.success /\ ~GiveUp(operation)
          st2 == [failed_ops     |-> IF keep THEN Append(st.failed_ops, operation)
                                     ELSE st.failed_ops,
                  records        |-> res.records,
                  successful_ops |-> st.successful_ops + (IF res.success THEN 1 ELSE 0),
                  tried          |-> IF res.invoked
                                     THEN [st.tried EXCEPT ![operation.qid] = @ + 1]
                                     ELSE st.tried,
                  removed        |-> IF keep THEN st.removed
                                     ELSE [st.removed EXCEPT ![operation.qid] =
                                             IF res.success THEN "done" ELSE "failed"]]
      IN ProcessQueueFrom(ops, i + 1, client, answers, st2)

ProcessQueue(ops, client, records, answers) ==
    ProcessQueueFrom(ops, 1, client, answers,
        [failed_ops |-> <<>>, records |-> records, successful_ops |-> 0,
         tried |-> tried, removed |-> removed])

---------------------------------------------------------------------------
(* The session: helpers of the handlers.                                   *)

\* Contact ids.  A contact loaded from the contact file carries the id
\* _load_csv generated; a contact loaded from the document store carries its
\* external_row_id when the document has one, else str(_id).
CsvIds      == {"contacts_0_7741", "contacts_1_9032"}
ObjectIdStrings == {"65a1f0c2e4b0a1b2c3d4e5f6"}
MongoIds    == ObjectIdStrings \cup {"test_1_8841"}

\* bson.ObjectId(contact_id) accepts only a 24-digit hex string
IsObjectId(id) == id \in ObjectIdStrings

\* _main_loop, lines 978-1000: the index of the record the loop displays,
\* Len(d) when it prints "All records have been processed" and stops
RECURSIVE SkipTerminal(_, _)
SkipTerminal(d, i) ==
    IF i < Len(d) /\ d[i + 1].status \in TERMINAL_STATUSES
    THEN SkipTerminal(d, i + 1)
    ELSE i

DisplayIndex(d, ci) ==
    LET i1 == SkipTerminal(d, ci)
    IN  IF i1 >= Len(d) THEN SkipTerminal(d, 0) ELSE i1

LoopRuns ==
    /\ editing = -1
    /\ Len(data) > 0
    /\ DisplayIndex(data, current_index) < Len(data)

\* The record the loop displays.
Shown == data[DisplayIndex(data, current_index) + 1]

\* What one handler did, for the properties below.
Did(op, index, cal, queued, ok) ==
    [op |-> op, index |-> index, cal |-> cal, queued |-> queued, ok |-> ok,
     entry |-> 0]

\* An answer of the environment is drawn only where the handler asks for it.
AnswersIf(asked, answers) ==
    IF asked THEN answers ELSE {CHOOSE a \in answers : TRUE}

\* Whether the store accepts an update: asked only with an adapter.
StoreAnswers == AnswersIf(db_manager # "none", BOOLEAN)

CalCall(call, event_id, answer) ==
    [call |-> call, event_id |-> event_id, answer |-> answer]

\* _add_timestamped_note, lines 1989-1993: notes joined by "; "; each entry
\* is "[YYYY-MM-DD HH:MM] text", kept here as the pair <<day, text>>
AddTimestampedNote(record, note) ==
    [record EXCEPT !.notes = Append(@, <<today, note>>)]

\* _update_contact_mongodb: the update is applied iff the id is an ObjectId
\* of a stored document and the store answers (up)
UpdateContactMongo(contacts, id, updates, up) ==
    LET found == up /\ IsObjectId(id) /\ id \in DOMAIN contacts
    IN  [ok |-> found,
         contacts |-> IF found
                      THEN [contacts EXCEPT ![id] =
                              [f \in DOMAIN @ |->
                                 IF f \in DOMAIN updates THEN updates[f] ELSE @[f]]]
                      ELSE contacts]

\* _save_csv, lines 2111-2119: the fields sent to update_contact
SaveUpdates(record) ==
    LET sent == {"status"} \cup
                {f \in {"last_call_at", "callback_on", "meeting_at"} : record[f] # ""}
                \cup (IF record.notes # <<>> THEN {"notes"} ELSE {})
    IN  [f \in sent |-> record[f]]

\* _save_csv after a handler changed record index i of d (0-based): in CSV
\* mode the whole list is written to the file after a backup copy; with an
\* adapter the current record is sent to update_contact
SaveCsv(d, i, up) ==
    IF db_manager = "none"
    THEN /\ backup_file' = csv_file
         /\ csv_file' = d
         /\ UNCHANGED <<db_contacts, tmp_file, save_pc>>
    ELSE /\ db_contacts' =
               IF i < Len(d) /\ d[i + 1].external_row_id # ""
               THEN UpdateContactMongo(db_contacts, d[i + 1].external_row_id,
                                       SaveUpdates(d[i + 1]), up).contacts
               ELSE db_contacts
         /\ UNCHANGED saveVars

\* _save_queue: json.dump of the operations (dicts of text and integers,
\* which json.load gives back as they were) over the queue file
SaveQueue_Truncated(ops) == SubSeq(ops, 1, 0)
SaveQueue(ops) == ops

\* add_calendar_operation followed by _save_queue
Enqueue(ops, op_type, record_id, when, event_id, event_type) ==
    Append(ops, QueuedOperation(next_qid + Len(ops) - Len(operations) + 1,
                                op_type, record_id, when, event_id, event_type))

---------------------------------------------------------------------------
(* The call-outcome handlers.  Each action is one turn of _main_loop: the  *)
(* loop's skip of terminal records, then the handler on the record shown.  *)

\* What cancel_event can answer: True, False, or an exception.
CancelAnswers == {"ok", "none", "throw"}

\* _cancel_calendar_events, with the collaborator's answers a1 (callback
\* event) and a2 (meeting event); cal lists the calls made
CancelCalendarEvents_SkipMeeting(record, a1, a2) ==
    IF ~calendar_client THEN [record |-> record, cal |-> <<>>]
    ELSE LET cb == record.gcal_callback_event_id
         IN  [record |-> IF cb # "" /\ a1 = "ok"
                         THEN [record EXCEPT !.gcal_callback_event_id = ""]
                         ELSE record,
              cal |-> IF cb # "" THEN <<CalCall("cancel", cb, a1)>> ELSE <<>>]

CancelCalendarEvents(record, a1, a2) ==
    IF ~calendar_client THEN [record |-> record, cal |-> <<>>]
    ELSE LET cb == record.gcal_callback_event_id
             mt == record.gcal_meeting_event_id
             r1 == IF cb # "" /\ a1 = "ok"
                   THEN [record EXCEPT !.gcal_callback_event_id = ""]
                   ELSE record
             r2 == IF mt # "" /\ a2 = "ok"
                   THEN [r1 EXCEPT !.gcal_meeting_event_id = ""]
                   ELSE r1
         IN  [record |-> r2,
              cal |-> (IF cb # "" THEN <<CalCall("cancel", cb, a1)>> ELSE <<>>)
                      \o (IF mt # "" THEN <<CalCall("cancel", mt, a2)>> ELSE <<>>)]

\* _archive_record: a copy of the record with archived_at, appended
ArchiveRow(record) == [record |-> record, archived_at |-> NowStamp(today)]

\* _outcome_bad_number (to = bad_number) and _outcome_do_not_call
OutcomeArchive(op, to) ==
    /\ LoopRuns
    /\ \E a1 \in AnswersIf(calendar_client /\ Shown.gcal_callback_event_id # "",
                             CancelAnswers),
          a2 \in AnswersIf(calendar_client /\ Shown.gcal_meeting_event_id # "",
                             CancelAnswers),
          up \in StoreAnswers :
        LET idx    == DisplayIndex(data, current_index)
            record == data[idx + 1]
            c      == CancelCalendarEvents(record, a1, a2)
            r2     == [c.record EXCEPT !.status = to,
                                       !.last_call_at = NowStamp(today)]
            d2     == [data EXCEPT ![idx + 1] = r2]
        IN  /\ data' = d2
            /\ archive' = Append(archive, ArchiveRow(r2))
            /\ SaveCsv(d2, idx, up)
            /\ current_index' = idx + 1
            /\ last' = Did(op, idx, c.cal, {}, TRUE)
    /\ UNCHANGED <<editing, calendar_client, db_manager, queueVars,
                   edit_history, importVars, viewVars, ghostQueue>>
    /\ UNCHANGED sideVars

OutcomeBadNumber == OutcomeArchive("bad_number", STATUS_BAD_NUMBER)

OutcomeDoNotCall == OutcomeArchive("do_not_call", STATUS_DO_NOT_CALL)

\* _outcome_no_answer
OutcomeNoAnswer ==
    /\ LoopRuns
    /\ \E up \in StoreAnswers :
        LET idx    == DisplayIndex(data, current_index)
            record == data[idx + 1]
            r1     == [record EXCEPT !.status = STATUS_NO_ANSWER,
                                     !.last_call_at = NowStamp(today)]
            r2     == AddTimestampedNote(r1, IsoDate(today) \o " ~ no answer")
            d2     == [data EXCEPT ![idx + 1] = r2]
        IN  /\ Len(record.notes) < MaxNotes
            /\ data' = d2
            /\ SaveCsv(d2, idx, up)
            /\ current_index' = idx
            /\ last' = Did("no_answer", idx, <<>>, {}, TRUE)
    /\ UNCHANGED <<editing, calendar_client, db_manager, queueVars, archive,
                   edit_history, importVars, viewVars, ghostQueue>>
    /\ UNCHANGED sideVars

\* The part _outcome_callback and _outcome_meeting share, lines 1682-1720 and
\* 1746-1783: op is "callback" or "meeting", when_date the date field's new
\* value, when_event the datetime given to the calendar, answer what the
\* calendar create call does, note the note text.
ScheduleOutcome_AbortOnCalendarError(op, record, when_date, when_event, answer, note) ==
    LET field   == IF op = "callback" THEN "callback_on" ELSE "meeting_at"
        ev      == IF op = "callback" THEN "gcal_callback_event_id"
                   ELSE "gcal_meeting_event_id"
        r1      == [record EXCEPT
                      !.status = IF op = "callback" THEN STATUS_CALLBACK
                                 ELSE STATUS_MEETING_BOOKED,
                      ![field] = when_date,
                      !.last_call_at = NowStamp(today)]
        created == calendar_client /\ answer \in EventIds
        failed  == calendar_client /\ answer \notin EventIds
        r2      == IF created THEN [r1 EXCEPT ![ev] = answer] ELSE r1
    IN  [record |-> IF failed THEN r2 ELSE AddTimestampedNote(r2, note),
         cal    |-> IF calendar_client
                    THEN <<CalCall("create_" \o op, "", answer)>> ELSE <<>>,
         queued |-> IF failed THEN {"create_" \o op} ELSE {}]

ScheduleOutcome(op, record, when_date, when_event, answer, note) ==
    LET field   == IF op = "callback" THEN "callback_on" ELSE "meeting_at"
        ev      == IF op = "callback" THEN "gcal_callback_event_id"
                   ELSE "gcal_meeting_event_id"
        r1      == [record EXCEPT
                      !.status = IF op = "callback" THEN STATUS_CALLBACK
                                 ELSE STATUS_MEETING_BOOKED,
                      ![field] = when_date,
                      !.last_call_at = NowStamp(today)]
        created == calendar_client /\ answer \in EventIds
        failed  == calendar_client /\ answer \notin EventIds
        r2      == IF created THEN [r1 EXCEPT ![ev] = answer] ELSE r1
    IN  [record |-> AddTimestampedNote(r2, note),
         cal    |-> IF calendar_client
                    THEN <<CalCall("create_" \o op, "", answer)>> ELSE <<>>,
         queued |-> IF failed THEN {"create_" \o op} ELSE {}]

\* What the operator enters: a callback in so many days (negative: refused),
\* a meeting so many days ahead at 2pm (negative: a text dateparser rejects).
DaysEntered == {-1, 1}

\* _outcome_callback (op = "callback") and _outcome_meeting (op = "meeting");
\* confirm is the operator's answer to "Schedule ... for ...?"
OutcomeSchedule(op) ==
    /\ LoopRuns
    /\ \E days \in DaysEntered, confirm \in BOOLEAN :
        LET idx    == DisplayIndex(data, current_index)
            record == data[idx + 1]
            day    == today + days
            when_date  == IF op = "callback" THEN IsoDate(day) ELSE IsoDateTime(day)
            when_event == IF op = "callback" THEN IsoDate(day) \o "T10:00:00"
                          ELSE IsoDateTime(day)
            note   == IF op = "callback"
                      THEN "callback scheduled for " \o IsoDate(day)
                      ELSE "meeting booked on " \o IsoDate(day) \o " 14:00"
        IN  /\ current_index' = idx
            /\ IF days < 0 \/ ~confirm
               THEN /\ last' = Did(op, idx, <<>>, {}, FALSE)
                    /\ UNCHANGED <<data, queueVars, next_qid, db_contacts, saveVars>>
               ELSE \E answer \in AnswersIf(calendar_client, CalendarAnswers),
                       up \in StoreAnswers :
                    LET s  == ScheduleOutcome(op, record, when_date, when_event,
                                              answer, note)
                        d2 == [data EXCEPT ![idx + 1] = s.record]
                    IN  /\ Len(record.notes) < MaxNotes
                        /\ s.queued # {} => next_qid < MaxEnqueue
                        /\ data' = d2
                        /\ operations' =
                              IF s.queued # {}
                              THEN Enqueue(operations, "create_" \o op,
                                           record.external_row_id, when_event, "", "")
                              ELSE operations
                        /\ queue_file' = IF s.queued # {}
                                         THEN SaveQueue(operations')
                                         ELSE queue_file
                        /\ next_qid' = IF s.queued # {} THEN next_qid + 1
                                       ELSE next_qid
                        /\ SaveCsv(d2, idx, up)
                        /\ last' = Did(op, idx, s.cal, s.queued, TRUE)
    /\ UNCHANGED <<editing, calendar_client, db_manager, archive,
                   edit_history, importVars, viewVars, tried, removed>>
    /\ UNCHANGED sideVars

OutcomeCallback == OutcomeSchedule("callback")

OutcomeMeeting == OutcomeSchedule("meeting")

---------------------------------------------------------------------------
(* Delete, navigation, promote / demote.                                   *)

\* _delete_record; confirm is the answer to "Delete this record?"
DeleteRecord ==
    /\ LoopRuns
    /\ \E confirm \in BOOLEAN, up \in StoreAnswers :
        LET idx    == DisplayIndex(data, current_index)
            record == data[idx + 1]
            r2     == [record EXCEPT !.status = STATUS_DELETED]
            d2     == [data EXCEPT ![idx + 1] = r2]
        IN  IF confirm
            THEN /\ data' = d2
                 /\ archive' = Append(archive, ArchiveRow(r2))
                 /\ SaveCsv(d2, idx, up)
                 /\ current_index' = idx + 1
                 /\ last' = Did("delete", idx, <<>>, {}, TRUE)
            ELSE /\ current_index' = idx
                 /\ last' = Did("delete", idx, <<>>, {}, FALSE)
                 /\ UNCHANGED <<data, archive, db_contacts, saveVars>>
    /\ UNCHANGED <<editing, calendar_client, db_manager, queueVars,
                   edit_history, importVars, viewVars, ghostQueue>>
    /\ UNCHANGED sideVars

\* _next_record
NextRecord ==
    /\ LoopRuns
    /\ LET idx == DisplayIndex(data, current_index)
       IN  /\ current_index' = idx + 1
           /\ last' = Did("next", idx, <<>>, {}, TRUE)
    /\ UNCHANGED <<data, editing, calendar_client, db_manager, queueVars,
                   archive, edit_history, db_contacts, saveVars, importVars,
                   viewVars, ghostQueue>>
    /\ UNCHANGED sideVars

\* _prev_record
PrevRecord ==
    /\ LoopRuns
    /\ LET idx == DisplayIndex(data, current_index)
       IN  /\ current_index' = IF idx > 0 THEN idx - 1 ELSE idx
           /\ last' = Did("prev", idx, <<>>, {}, TRUE)
    /\ UNCHANGED <<data, editing, calendar_client, db_manager, queueVars,
                   archive, edit_history, db_contacts, saveVars, importVars,
                   viewVars, ghostQueue>>
    /\ UNCHANGED sideVars

\* One entry of the edit_history collection.
HistoryEntry(contact_id, field, old_value, new_value) ==
    [contact_id |-> contact_id, field |-> field, old_value |-> old_value,
     new_value |-> new_value, timestamp |-> NowStamp(today), user |-> "system"]

\* _save_edit_history: the collection after the call; stored is FALSE when
\* insert_one raises (the handler logs and goes on)
SaveEditHistory(history, contact_id, field, old_value, new_value, stored) ==
    IF db_manager = "mongodb" /\ stored
    THEN Append(history, HistoryEntry(contact_id, field, old_value, new_value))
    ELSE history

\* db_manager.update_contact on the adapter's store
UpdateContact(contact_id, updates, up) ==
    UpdateContactMongo(db_contacts, contact_id, updates, up)

\* _promote_to_client (to = close_won) and _demote_to_cemetery, from the
\* confirmation on: the ledger write, the update, the record's new status
PromoteDemote_CancelsEvents(record, to, stored, up) ==
    LET id  == record.external_row_id
        upd == UpdateContact(id, [status |-> to], up)
    IN  [history  |-> SaveEditHistory(edit_history, id, "status", record.status,
                                      to, stored),
         contacts |-> upd.contacts,
         ok       |-> upd.ok,
         record   |-> IF upd.ok
                      THEN [record EXCEPT !.status = to,
                                          !.gcal_callback_event_id = "",
                                          !.gcal_meeting_event_id = ""]
                      ELSE record,
         cal      |-> CancelCalendarEvents(record, "ok", "ok").cal]

PromoteDemote(record, to, stored, up) ==
    LET id  == record.external_row_id
        upd == UpdateContact(id, [status |-> to], up)
    IN  [history  |-> SaveEditHistory(edit_history, id, "status", record.status,
                                      to, stored),
         contacts |-> upd.contacts,
         ok       |-> upd.ok,
         record   |-> IF upd.ok THEN [record EXCEPT !.status = to] ELSE record,
         cal      |-> <<>>]

PromoteDemoteAction(op, to) ==
    /\ LoopRuns
    /\ db_manager # "none"
    /\ \E confirm \in BOOLEAN :
        LET idx    == DisplayIndex(data, current_index)
            record == data[idx + 1]
        IN  /\ record.external_row_id # ""
            /\ current_index' = idx
            /\ IF confirm
               THEN \E stored \in BOOLEAN, up \in BOOLEAN :
                    LET p == PromoteDemote(record, to, stored, up)
                    IN  /\ Len(edit_history) < MaxHistory
                        /\ edit_history' = p.history
                        /\ db_contacts' = p.contacts
                        /\ data' = [data EXCEPT ![idx + 1] = p.record]
                        /\ last' = Did(op, idx, p.cal, {}, p.ok)
               ELSE /\ last' = Did(op \o "_cancelled", idx, <<>>, {}, FALSE)
                    /\ UNCHANGED <<data, edit_history, db_contacts>>
    /\ UNCHANGED <<editing, calendar_client, db_manager, queueVars, archive,
                   saveVars, importVars, viewVars, ghostQueue>>
    /\ UNCHANGED sideVars

PromoteToClient == PromoteDemoteAction("promote", STATUS_CLOSE_WON)

DemoteToCemetery == PromoteDemoteAction("demote", STATUS_CLOSE_LOST)

---------------------------------------------------------------------------
(* Quick-edit mode (_edit_current_record) and the edit-history ledger.     *)

\* The fields of the model's records the operator edits as free text
\* (editable_fields lists status next to callback_on), and what is typed:
\* _edit_field takes any non-empty text that differs from the current value.
EditFields == {"callback_on", "status"}

EditValues(field) ==
    IF field = "status" THEN {STATUS_INVALID_PHONE, "pending"}
    ELSE {IsoDate(16), "soon"}

\* _edit_status_field: the statuses offered, and the ones the operator picks
StatusChoices ==
    {STATUS_NEW, STATUS_CALLBACK, STATUS_MEETING_BOOKED, STATUS_NO_ANSWER,
     STATUS_CLOSE_WON, STATUS_CLOSE_LOST, STATUS_DO_NOT_CALL, STATUS_BAD_NUMBER}

StatusPicks == StatusChoices \cap {STATUS_MEETING_BOOKED, STATUS_CLOSE_WON}

\* 'e': _edit_current_record opens on the record shown
EnterEdit ==
    /\ LoopRuns
    /\ db_manager # "none"
    /\ LET idx == DisplayIndex(data, current_index)
       IN  /\ editing' = idx
           /\ current_index' = idx
           /\ last' = Did("edit_open", idx, <<>>, {}, TRUE)
    /\ UNCHANGED <<data, calendar_client, db_manager, queueVars, archive,
                   edit_history, db_contacts, saveVars, importVars, viewVars,
                   ghostQueue>>
    /\ UNCHANGED sideVars

\* 'b': back to the main loop
LeaveEdit ==
    /\ editing >= 0
    /\ editing' = -1
    /\ last' = Did("edit_close", editing, <<>>, {}, TRUE)
    /\ UNCHANGED <<data, current_index, calendar_client, db_manager, queueVars,
                   archive, edit_history, db_contacts, saveVars, importVars,
                   viewVars, ghostQueue>>
    /\ UNCHANGED sideVars

\* _edit_field (free text) and _edit_status_field (a listed status), from the
\* point where the new value differs from the current one: the ledger write,
\* the local change, the update, the local revert when the update fails
TrackedEdit(record, field, new_value, stored, up) ==
    LET id  == record.external_row_id
        upd == IF id # "" THEN UpdateContact(id, [f \in {field} |-> new_value], up)
               ELSE [ok |-> TRUE, contacts |-> db_contacts]
    IN  [history  |-> IF id # ""
                      THEN SaveEditHistory(edit_history, id, field, record[field],
                                           new_value, stored)
                      ELSE edit_history,
         contacts |-> upd.contacts,
         ok       |-> upd.ok,
         record   |-> IF upd.ok THEN [record EXCEPT ![field] = new_value]
                      ELSE record]

EditAction(op, field, values) ==
    /\ editing >= 0
    /\ Len(edit_history) < MaxHistory
    /\ \E new_value \in values, stored \in BOOLEAN, up \in BOOLEAN :
        LET record == data[editing + 1]
            e      == TrackedEdit(record, field, new_value, stored, up)
        IN  /\ new_value # record[field]
            /\ edit_history' = e.history
            /\ db_contacts' = e.contacts
            /\ data' = [data EXCEPT ![editing + 1] = e.record]
            /\ last' = Did(op, editing, <<>>, {}, e.ok)
    /\ UNCHANGED <<current_index, editing, calendar_client, db_manager,
                   queueVars, archive, saveVars, importVars, viewVars,
                   ghostQueue>>
    /\ UNCHANGED sideVars

EditField == \E field \in EditFields : EditAction("edit_field", field, EditValues(field))

EditStatusField == EditAction("edit_status", "status", StatusPicks)

\* _edit_status_field with choice 7 (Do Not Call) or 8 (Bad Number)
EditStatusTerminal ==
    EditAction("edit_status", "status",
               StatusChoices \cap {STATUS_DO_NOT_CALL, STATUS_BAD_NUMBER})

\* _edit_field on ('notes', 'Notes') of editable_fields: the text typed
\* becomes the whole notes field.  Notes are kept as their entries, each the
\* day of its bracketed timestamp and its text; typed text carries no
\* timestamp, which day 0 stands for.
TypedNotes == {<<<<0, "asked for a quote">>>>}

EditNotes == EditAction("edit_field", "notes", TypedNotes)

\* _show_edit_history: the entries of one contact, as positions of the
\* collection (the code lists the 20 most recent)
EntriesOf(contact_id) ==
    {k \in 1..Len(edit_history) : edit_history[k].contact_id = contact_id}

\* _revert_field_change, after 'YES': the update, the local change, the
\* ledger entry of the revert
RevertFieldChange(history_entry, k, stored, up) ==
    LET id  == history_entry.contact_id
        upd == UpdateContact(id, [f \in {history_entry.field} |->
                                     history_entry.old_value], up)
        cur == data[current_index + 1]
    IN  [ok       |-> upd.ok,
         contacts |-> upd.contacts,
         data     |-> IF upd.ok /\ cur.external_row_id = id
                      THEN [data EXCEPT ![current_index + 1] =
                              [cur EXCEPT ![history_entry.field] =
                                              history_entry.old_value]]
                      ELSE data,
         history  |-> IF upd.ok
                      THEN SaveEditHistory(edit_history, id, history_entry.field,
                                           history_entry.new_value,
                                           history_entry.old_value, stored)
                      ELSE edit_history]

\* _revert_field_change, line 2491: confirm is the text typed, stripped
RevertConfirms_AnyCase(confirm) == confirm \in {"YES", "yes"}
RevertConfirms(confirm) == confirm = "YES"

\* 'h' then an entry number then the confirmation text
RevertAction ==
    /\ editing >= 0
    /\ data[editing + 1].external_row_id # ""
    /\ \E k \in EntriesOf(data[editing + 1].external_row_id),
          confirm \in {"YES", "yes"}, stored \in BOOLEAN, up \in BOOLEAN :
        LET r == RevertFieldChange(edit_history[k], k, stored, up)
        IN  IF RevertConfirms(confirm)
            THEN /\ Len(edit_history) < MaxHistory
                 /\ data' = r.data
                 /\ db_contacts' = r.contacts
                 /\ edit_history' = r.history
                 /\ last' = [op |-> "revert", index |-> editing, cal |-> <<>>,
                             queued |-> {}, ok |-> r.ok, entry |-> k,
                             typed |-> confirm]
            ELSE /\ last' = [op |-> "revert_cancelled", index |-> editing,
                             cal |-> <<>>, queued |-> {}, ok |-> FALSE,
                             entry |-> 0, typed |-> confirm]
                 /\ UNCHANGED <<data, db_contacts, edit_history>>
    /\ UNCHANGED <<current_index, editing, calendar_client, db_manager,
                   queueVars, archive, saveVars, importVars, viewVars,
                   ghostQueue>>
    /\ UNCHANGED sideVars

---------------------------------------------------------------------------
(* Import of the contact file (_load_csv) and the load from the store.     *)

\* Phone numbers as they stand in a file: none, one that phonenumbers parses
\* and validates for region US, one already in E.164, one it rejects.
RawPhones == {"", " ", "416-555-1234", "+14165551234", "12"}

\* str.strip() on the phone texts of the model
Strip(phone) == IF phone = " " THEN "" ELSE phone

\* _normalize_phone_number: the E.164 form, "" for None
NormalizePhoneNumber(phone) ==
    IF phone \in {"416-555-1234", "+14165551234"} THEN "+14165551234"
    ELSE IF phone = "+16475550199" THEN phone
    ELSE ""

\* _load_csv line 831-832: f"{stem}_{i}_{abs(hash(...))}"; hash() of a string
\* depends on the process (seed)
GeneratedId(i, seed) == "contacts_" \o ToString(i) \o "_" \o ToString(seed)

\* _load_csv, lines 828-853, for the rows from position i on (0-based)
RECURSIVE LoadCsvFrom(_, _, _, _)
LoadCsvFrom(rows, i, seed, st) ==
    IF i >= Len(rows) THEN st
    ELSE
      LET row == rows[i + 1]
          r1  == IF row.external_row_id = ""
                 THEN [row EXCEPT !.external_row_id = GeneratedId(i, seed)]
                 ELSE row
          r2  == IF r1.status = "" THEN [r1 EXCEPT !.status = STATUS_NEW] ELSE r1
          phone_number == Strip(r2.phone_number)
          normalized == NormalizePhoneNumber(phone_number)
      IN  IF phone_number = ""
          THEN LoadCsvFrom(rows, i + 1, seed,
                 [st EXCEPT !.issues = Append(@, <<i + 1, "missing">>)])
          ELSE IF normalized # ""
          THEN LoadCsvFrom(rows, i + 1, seed,
                 [st EXCEPT !.valid_rows =
                     Append(@, [r2 EXCEPT !.phone_number = normalized])])
          ELSE LoadCsvFrom(rows, i + 1, seed,
                 [valid_rows |-> Append(st.valid_rows,
                                        [r2 EXCEPT !.status = STATUS_INVALID_PHONE]),
                  issues |-> Append(st.issues, <<i + 1, "invalid">>)])

LoadCsvRows(rows, seed) ==
    LoadCsvFrom(rows, 0, seed, [valid_rows |-> <<>>, issues |-> <<>>])

\* _load_from_database: one record per stored contact (ids in the order
\* given), schedule, notes and event ids blank
LoadFromDatabase(contacts, order) ==
    [i \in 1..Len(order) |->
        LET c == contacts[order[i]]
        IN  Contact(c.external_row_id, c.phone_number, c.status, "", "", "", "")]

---------------------------------------------------------------------------
(* Process start: _initialize loads the records and the queue, sets the    *)
(* calendar up and drains the queue (_process_queued_operations).          *)

MongoOrder == <<"65a1f0c2e4b0a1b2c3d4e5f6", "test_1_8841">>

Startup ==
    /\ \E client \in BOOLEAN, up \in StoreAnswers, seed \in {5150},
          answers \in [1..Len(queue_file) -> CalendarAnswers] :
        LET loaded == IF db_manager = "none" THEN LoadCsvRows(csv_file, seed).valid_rows
                      ELSE LoadFromDatabase(db_contacts, MongoOrder)
            res    == ProcessQueue(queue_file, client, loaded, answers)
        IN  /\ calendar_client' = client
            /\ current_index' = 0
            /\ editing' = -1
            /\ IF queue_file = <<>>
               THEN /\ data' = loaded
                    /\ operations' = <<>>
                    /\ UNCHANGED <<queue_file, tried, removed, db_contacts, saveVars>>
               ELSE /\ data' = res.records
                    /\ operations' = res.failed_ops
                    /\ queue_file' = SaveQueue(res.failed_ops)
                    /\ tried' = res.tried
                    /\ removed' = res.removed
                    /\ IF res.successful_ops > 0
                       THEN SaveCsv(res.records, 0, up)
                       ELSE UNCHANGED <<db_contacts, saveVars>>
            /\ last' = [op |-> "startup", index |-> 0, cal |-> <<>>,
                        queued |-> {}, ok |-> TRUE, entry |-> Len(queue_file),
                        returned |-> IF queue_file = <<>> THEN 0
                                     ELSE res.successful_ops]
    /\ UNCHANGED <<db_manager, archive, edit_history, importVars, viewVars,
                   next_qid>>
    /\ UNCHANGED sideVars

\* _load_csv as run by _initialize on the file being imported
LoadCsv ==
    /\ \E seed \in {5150, 7302} :
        LET res == LoadCsvRows(csv_rows, seed)
        IN  /\ data' = res.valid_rows
            /\ issues' = res.issues
            /\ last' = [op |-> "load_csv", rows |-> Len(csv_rows),
                        loaded |-> Len(res.valid_rows),
                        reported |-> Len(res.issues)]
    /\ current_index' = 0
    /\ UNCHANGED <<editing, calendar_client, db_manager, queueVars, archive,
                   edit_history, db_contacts, saveVars, csv_rows, viewVars,
                   ghostQueue>>
    /\ UNCHANGED sideVars

\* migrate_from_csv, the loop over csv_data from position i on: docs is the
\* contacts collection (replace_one with upsert, keyed by phone_number)
RECURSIVE MigrateFrom(_, _, _)
MigrateFrom(rows, i, st) ==
    IF i > Len(rows) THEN st
    ELSE
      LET csv_row == rows[i]
          phone   == Strip(csv_row.phone_number)
          doc     == [csv_row EXCEPT !.phone_number = phone]
      IN  IF phone = ""
          THEN MigrateFrom(rows, i + 1, [st EXCEPT !.skipped = @ + 1])
          ELSE MigrateFrom(rows, i + 1,
                 [docs     |-> [p \in DOMAIN st.docs \cup {phone} |->
                                   IF p = phone THEN doc ELSE st.docs[p]],
                  contacts |-> st.contacts + 1,
                  skipped  |-> st.skipped])

NoContacts == [id \in {} |-> NoRecord]

\* load_data_from_csv with auto_migrate: the rows read, then migrate_from_csv
MigrateCsvToMongodb ==
    /\ LET res == MigrateFrom(csv_rows, 1,
                     [docs |-> NoContacts, contacts |-> 0, skipped |-> 0])
       IN  /\ contacts_data' = csv_rows
           /\ db_contacts' = res.docs
           /\ last' = [op |-> "migrate", rows |-> Len(csv_rows),
                       loaded |-> res.contacts, reported |-> res.skipped]
    /\ UNCHANGED <<data, current_index, editing, calendar_client, db_manager,
                   queueVars, archive, edit_history, saveVars, importVars,
                   today, view_result, view_type, csv_headers, ghostQueue>>
    /\ UNCHANGED sideVars

---------------------------------------------------------------------------
(* The priority views of the persistence adapter on its flat-file backend. *)

\* datetime.fromisoformat(text.replace("T", " ")).date() inside try/except:
\* the day, 0 when the text does not parse
ViewDay_MalformedIsPast(text) == IF ParseDay(text) = 0 THEN 10 ELSE ParseDay(text)
ViewDay(text) == ParseDay(text)

\* _get_priority_view_csv: the records of contacts returned for view_name
RECURSIVE GetPriorityViewCsv(_, _, _)
GetPriorityViewCsv(contacts, view_name, as_of) ==
    IF contacts = <<>> THEN <<>>
    ELSE
      LET record == Head(contacts)
          rest   == GetPriorityViewCsv(Tail(contacts), view_name, as_of)
          cb     == IF record.callback_on # "" THEN ViewDay(record.callback_on) ELSE 0
          mt     == IF record.meeting_at # "" THEN ViewDay(record.meeting_at) ELSE 0
          keep   == IF view_name = "today"
                    THEN cb = as_of \/ mt = as_of
                    ELSE IF view_name = "overdue"
                    THEN (cb # 0 /\ cb < as_of) \/ (mt # 0 /\ mt < as_of)
                    ELSE IF view_name = "new"
                    THEN record.status = STATUS_NEW
                    ELSE record.status \notin {"archived", STATUS_DELETED,
                                               STATUS_DO_NOT_CALL}
      IN  IF keep THEN <<record>> \o rest ELSE rest

\* _get_contacts_csv with the arguments get_contacts() defaults to: no
\* status filter, no pagination; the rows carry no priority_score column,
\* so the list is returned unsorted
RECURSIVE GetContactsCsv(_, _)
GetContactsCsv(contacts, status_filter) ==
    IF contacts = <<>> THEN <<>>
    ELSE LET rest == GetContactsCsv(Tail(contacts), status_filter)
         IN  IF status_filter = "" \/ Head(contacts).status = status_filter
             THEN <<Head(contacts)>> \o rest
             ELSE rest

\* _migrate_tasks_from_csv over the rows: a pending task per callback_on and
\* per meeting_at that datetime.fromisoformat reads, due on its day
MigrateTasksFromCsv(rows) ==
    {[contact_id |-> rows[i].external_row_id, due_at |-> ParseDay(rows[i].callback_on),
      state |-> "pending"] :
        i \in {j \in 1..Len(rows) : ParseDay(rows[j].callback_on) # 0}}
    \cup
    {[contact_id |-> rows[i].external_row_id, due_at |-> ParseDay(rows[i].meeting_at),
      state |-> "pending"] :
        i \in {j \in 1..Len(rows) : ParseDay(rows[j].meeting_at) # 0}}

\* _get_priority_view_mongodb: today and overdue match on the tasks joined
\* to the contact ($lookup), new on the status, the default on every status
\* but "archived"
GetPriorityViewMongodb(contacts, tasks, view_name, as_of) ==
    LET joined(record) == {t \in tasks : t.contact_id = record.external_row_id}
        keep(record) ==
            IF view_name = "today"
            THEN \E t \in joined(record) : t.due_at = as_of
            ELSE IF view_name = "overdue"
            THEN /\ \E t \in joined(record) : t.due_at < as_of
                 /\ \E t \in joined(record) : t.state = "pending"
            ELSE IF view_name = "new"
            THEN record.status = "new"
            ELSE record.status # "archived"
    IN  SelectSeq(contacts, keep)

\* get_priority_view_data: the backend's implementation
GetPriorityViewDataOn_SkipsFirst(backend, contacts, tasks, view_name, as_of) ==
    LET found == GetPriorityViewCsv(contacts, view_name, as_of)
    IN  IF found = <<>> THEN found ELSE Tail(found)
GetPriorityViewDataOn(backend, contacts, tasks, view_name, as_of) ==
    IF backend = "mongodb"
    THEN GetPriorityViewMongodb(contacts, tasks, view_name, as_of)
    ELSE GetPriorityViewCsv(contacts, view_name, as_of)

PriorityViews == {"today", "overdue", "new", "all"}

\* get_priority_view_data(view_name), as _switch_view asks for today,
\* overdue and new (and any caller may for all)
GetPriorityViewData ==
    /\ \E view_name \in PriorityViews :
        /\ view_type' = view_name
        /\ view_result' = GetPriorityViewDataOn("csv", contacts_data, {},
                                                view_name, today)
        /\ last' = [op |-> "view", view |-> view_name]
    /\ UNCHANGED <<data, current_index, editing, calendar_client, db_manager,
                   queueVars, archive, edit_history, db_contacts, saveVars,
                   importVars, contacts_data, today, csv_headers, ghostQueue>>
    /\ UNCHANGED sideVars

\* get_priority_view_data(view_name) of an adapter on the document store that
\* holds the same contacts (migrate_from_csv of the rows, with their tasks)
GetPriorityViewDataMongodb ==
    /\ \E view_name \in PriorityViews :
        /\ view_type' = view_name
        /\ view_result' = GetPriorityViewDataOn("mongodb", contacts_data,
                                                MigrateTasksFromCsv(contacts_data),
                                                view_name, today)
        /\ last' = [op |-> "view_mongodb", view |-> view_name]
    /\ UNCHANGED <<data, current_index, editing, calendar_client, db_manager,
                   queueVars, archive, edit_history, db_contacts, saveVars,
                   importVars, contacts_data, today, csv_headers, ghostQueue>>
    /\ UNCHANGED sideVars

\* get_contacts(), as _switch_view asks for the view "all"
GetContacts ==
    /\ view_type' = "all"
    /\ view_result' = GetContactsCsv(contacts_data, "")
    /\ last' = [op |-> "get_contacts", view |-> "all"]
    /\ UNCHANGED <<data, current_index, editing, calendar_client, db_manager,
                   queueVars, archive, edit_history, db_contacts, saveVars,
                   importVars, contacts_data, today, csv_headers, ghostQueue>>
    /\ UNCHANGED sideVars

\* _update_contact_csv(contact_id, {status: to}): the first record whose
\* external_row_id or phone_number is contact_id is changed and stamped
UpdateContactCsv(contacts, contact_id, to, stamp) ==
    LET hits == {i \in 1..Len(contacts) :
                    \/ contacts[i].external_row_id = contact_id
                    \/ contacts[i].phone_number = contact_id}
    IN  IF hits = {} THEN [ok |-> FALSE, contacts |-> contacts]
        ELSE LET i == CHOOSE h \in hits : \A g \in hits : h <= g
             IN  [ok |-> TRUE,
                  contacts |-> [contacts EXCEPT ![i].status = to,
                                                ![i].last_updated = stamp]]

\* update_contact on the flat-file backend with the status of a promotion
UpdateStatusCsv ==
    /\ \E contact_id \in {contacts_data[i].external_row_id :
                              i \in 1..Len(contacts_data)} \cup {"unknown"} :
        LET u == UpdateContactCsv(contacts_data, contact_id, STATUS_CLOSE_WON,
                                  NowStamp(today))
        IN  /\ contacts_data' = u.contacts
            /\ last' = [op |-> "update_status", view |-> "none"]
    /\ UNCHANGED <<data, current_index, editing, calendar_client, db_manager,
                   queueVars, archive, edit_history, db_contacts, saveVars,
                   importVars, today, view_result, view_type, csv_headers, ghostQueue>>
    /\ UNCHANGED sideVars

\* str order of the status values a row can carry
StatusOrder ==
    <<STATUS_BAD_NUMBER, STATUS_CALLBACK, STATUS_CLOSE_LOST, STATUS_CLOSE_WON,
      STATUS_DELETED, STATUS_DO_NOT_CALL, STATUS_INVALID_PHONE,
      STATUS_MEETING_BOOKED, STATUS_NEW, STATUS_NO_ANSWER>>

StringRank(text) ==
    IF text = "" THEN 0
    ELSE CHOOSE k \in 1..Len(StatusOrder) : StatusOrder[k] = text

\* list.sort(key=..., reverse=...): stable in both directions; keyf gives
\* the key of each row
RECURSIVE SortRows(_, _, _)
SortRows(rows, keyf, reverse) ==
    IF rows = <<>> THEN <<>>
    ELSE LET front == SortRows(SubSeq(rows, 1, Len(rows) - 1), keyf, reverse)
             r     == rows[Len(rows)]
             n     == Cardinality({i \in 1..Len(front) :
                         IF reverse THEN keyf[front[i]] >= keyf[r]
                         ELSE keyf[front[i]] <= keyf[r]})
         IN  SubSeq(front, 1, n) \o <<r>> \o SubSeq(front, n + 1, Len(front))

\* _get_contacts_csv with every argument ("" and 0 stand for None): what it
\* returns and contacts_data after the call.  Without a status filter
\* filtered_data is contacts_data itself, and sort() orders it in place.
\* float() reads an empty value as 0 and raises on a status text, after
\* which the rows are ordered as strings.
GetContactsCsvSorted(contacts, headers, status_filter, limit, skip, sort_by, sort_direction) ==
    LET filtered == IF status_filter # ""
                    THEN GetContactsCsv(contacts, status_filter)
                    ELSE contacts
        numeric  == \A i \in 1..Len(filtered) : filtered[i][sort_by] = ""
        keyf     == [r \in SeqToSet(filtered) |->
                        IF numeric THEN 0 ELSE StringRank(r[sort_by])]
        sorted   == IF sort_by # "" /\ sort_by \in headers
                    THEN SortRows(filtered, keyf, sort_direction = -1)
                    ELSE filtered
        skipped  == IF skip # 0 THEN SubSeq(sorted, skip + 1, Len(sorted))
                    ELSE sorted
        limited  == IF limit # 0 /\ limit < Len(skipped)
                    THEN SubSeq(skipped, 1, limit)
                    ELSE skipped
    IN  [result   |-> limited,
         contacts |-> IF status_filter # "" THEN contacts ELSE sorted]

\* get_contacts(status_filter, limit, skip, sort_by, sort_direction) on the
\* flat-file backend
GetContactsSorted ==
    /\ \E status_filter \in {"", STATUS_NEW}, limit \in 0..1, skip \in 0..1,
          sort_by \in {"priority_score", "status"}, sort_direction \in {-1, 1} :
        LET g == GetContactsCsvSorted(contacts_data, csv_headers, status_filter,
                                      limit, skip, sort_by, sort_direction)
        IN  /\ view_result' = g.result
            /\ contacts_data' = g.contacts
            /\ view_type' = "contacts"
            /\ last' = [op |-> "get_contacts", status_filter |-> status_filter,
                        limit |-> limit, skip |-> skip, sort_by |-> sort_by,
                        sort_direction |-> sort_direction]
    /\ UNCHANGED <<data, current_index, editing, calendar_client, db_manager,
                   queueVars, archive, edit_history, db_contacts, saveVars,
                   importVars, today, csv_headers, ghostQueue>>
    /\ UNCHANGED sideVars

\* csv.DictWriter(f, fieldnames=csv_headers).writerows: a row with a key
\* that is no column raises ValueError.  The stamp of an update is the key
\* last_updated; "" stands for a row that has none.
Unwritable(row, headers) ==
    row.last_updated # "" /\ "last_updated" \notin headers

\* save_data on the flat-file backend, to its end: the backup copy, the rows
\* written to the temporary file, the replace; an exception leaves the rows
\* written so far in the temporary file and returns False
SaveData ==
    /\ LET bad == {i \in 1..Len(contacts_data) :
                      Unwritable(contacts_data[i], csv_headers)}
       IN  /\ backup_file' = csv_file
           /\ IF bad = {}
              THEN /\ csv_file' = contacts_data
                   /\ tmp_file' = <<>>
              ELSE /\ csv_file' = csv_file
                   /\ tmp_file' = SubSeq(contacts_data, 1,
                                    (CHOOSE i \in bad : \A j \in bad : i <= j) - 1)
           /\ last' = [op |-> "save_data", ok |-> bad = {}]
    /\ UNCHANGED <<data, current_index, editing, calendar_client, db_manager,
                   queueVars, archive, edit_history, db_contacts, save_pc,
                   importVars, viewVars, ghostQueue>>
    /\ UNCHANGED sideVars

---------------------------------------------------------------------------
(* _save_to_csv_file step by step (save_data of the adapter follows the    *)
(* same steps on contacts_data): backup copy, open the temporary file,     *)
(* write the rows, close, replace.  The process can die between any two    *)
(* steps.  A file is the sequence of the rows it holds; <<>> also stands   *)
(* for a temporary file that does not exist.                               *)

\* Which file the rows are written to: temp_path = csv_path.with_suffix('.tmp')
SaveTarget_InPlace == "csv"
SaveTarget == "tmp"

\* the statuses the handler in front of the save gives a record
SaveStatuses == {STATUS_NO_ANSWER, STATUS_DELETED}

\* a handler's local change, then shutil.copy2(csv_path, backup_path)
SaveBackup ==
    /\ save_pc = "idle"
    /\ \E i \in 1..Len(data), s \in SaveStatuses :
        /\ data' = [data EXCEPT ![i].status = s]
        /\ last' = [op |-> "save", prev |-> csv_file, target |-> data',
                    renamed |-> FALSE, crashed |-> FALSE]
    /\ backup_file' = csv_file
    /\ save_pc' = "backed_up"
    /\ UNCHANGED <<current_index, editing, calendar_client, db_manager,
                   queueVars, archive, edit_history, db_contacts, csv_file,
                   tmp_file, importVars, viewVars, ghostQueue>>
    /\ UNCHANGED sideVars

\* open(temp_path, 'w') and writer.writeheader()
SaveOpenTemp ==
    /\ save_pc = "backed_up"
    /\ save_pc' = "writing"
    /\ IF SaveTarget = "tmp"
       THEN tmp_file' = <<>> /\ UNCHANGED csv_file
       ELSE csv_file' = <<>> /\ UNCHANGED tmp_file
    /\ UNCHANGED <<data, current_index, editing, calendar_client, db_manager,
                   queueVars, archive, edit_history, db_contacts, backup_file,
                   importVars, viewVars, last, ghostQueue>>
    /\ UNCHANGED sideVars

\* writer.writerows(self.data), one row reaching the file at a time
SaveWriteRow ==
    /\ save_pc = "writing"
    /\ LET written == IF SaveTarget = "tmp" THEN tmp_file ELSE csv_file
       IN  /\ Len(written) < Len(data)
           /\ IF SaveTarget = "tmp"
              THEN /\ tmp_file' = Append(written, data[Len(written) + 1])
                   /\ UNCHANGED csv_file
              ELSE /\ csv_file' = Append(written, data[Len(written) + 1])
                   /\ UNCHANGED tmp_file
    /\ UNCHANGED <<data, current_index, editing, calendar_client, db_manager,
                   queueVars, archive, edit_history, db_contacts, backup_file,
                   save_pc, importVars, viewVars, last, ghostQueue>>
    /\ UNCHANGED sideVars

\* the with block ends: the temporary file is closed, fully written
SaveCloseTemp ==
    /\ save_pc = "writing"
    /\ Len(IF SaveTarget = "tmp" THEN tmp_file ELSE csv_file) = Len(data)
    /\ save_pc' = "written"
    /\ UNCHANGED <<data, current_index, editing, calendar_client, db_manager,
                   queueVars, archive, edit_history, db_contacts, csv_file,
                   tmp_file, backup_file, importVars, viewVars, last,
                   ghostQueue>>
    /\ UNCHANGED sideVars

\* temp_path.replace(self.csv_path)
SaveReplace ==
    /\ save_pc = "written"
    /\ save_pc' = "idle"
    /\ csv_file' = IF SaveTarget = "tmp" THEN tmp_file ELSE csv_file
    /\ tmp_file' = <<>>
    /\ last' = [last EXCEPT !.renamed = TRUE]
    /\ UNCHANGED <<data, current_index, editing, calendar_client, db_manager,
                   queueVars, archive, edit_history, db_contacts, backup_file,
                   importVars, viewVars, ghostQueue>>
    /\ UNCHANGED sideVars

\* the process dies inside the save; the next run loads the file again
SaveCrash ==
    /\ save_pc # "idle"
    /\ save_pc' = "idle"
    /\ data' = LoadCsvRows(csv_file, 5150).valid_rows
    /\ current_index' = 0
    /\ last' = [last EXCEPT !.crashed = TRUE]
    /\ UNCHANGED <<editing, calendar_client, db_manager, queueVars, archive,
                   edit_history, db_contacts, csv_file, tmp_file, backup_file,
                   importVars, viewVars, ghostQueue>>
    /\ UNCHANGED sideVars

---------------------------------------------------------------------------
(* Initial states and specifications.  Each specification starts where     *)
(* _initialize leaves the program and runs the handlers of one part of it. *)

NoAction == Did("none", 0, <<>>, {}, FALSE)

\* OperationQueue.__init__ with no queue file on disk
EmptyQueue ==
    /\ operations = <<>>
    /\ queue_file = <<>>
    /\ next_qid = 0
    /\ tried = [q \in 1..MaxEnqueue |-> 0]
    /\ removed = [q \in 1..MaxEnqueue |-> ""]

\* No call placed, the main loop running, no configuration read yet and no
\* adapter constructed.
NoCall ==
    [pc |-> "idle", current_call_id |-> "", poll_count |-> 0,
     last_status |-> "none", final_status |-> "none", tick |-> 0,
     interrupted |-> FALSE, terminates |-> 0, outcomes |-> 0]

NoOriginal == [data |-> <<>>, index |-> 0]

NoConfig == [loaded |-> FALSE]

NoAdapter == [constructed |-> FALSE]

SideIdle ==
    /\ phone_call = NoCall
    /\ running = TRUE
    /\ session = "loop"
    /\ original = NoOriginal
    /\ config = NoConfig
    /\ adapter = NoAdapter
    /\ current_view = "all"
    /\ loop_pc = "input"

NoSaveRunning == tmp_file = <<>> /\ backup_file = <<>> /\ save_pc = "idle"

NoImport == csv_rows = <<>> /\ issues = <<>>

NoView ==
    /\ contacts_data = <<>> /\ view_result = <<>> /\ view_type = "all"
    /\ csv_headers = {}

\* The contact file of the sessions: a contact never called and a contact
\* with a callback and a meeting three days ago and their calendar events.  The contact at
\* position live is in play, the other one was deleted earlier.
SessionFile(live) ==
    <<Contact("contacts_0_7741", "+14165551234",
              IF live = 1 THEN STATUS_NEW ELSE STATUS_DELETED, "", "", "", ""),
      Contact("contacts_1_9032", "+16475550199",
              IF live = 2 THEN STATUS_CALLBACK ELSE STATUS_DELETED,
              IsoDate(12), IsoDateTime(12), "evt123", "evt456")>>

\* The contacts collection of the sessions: one document addressed by its
\* _id, one by the external_row_id it was migrated with.
SessionStore(live) ==
    [id \in MongoIds |->
        IF IsObjectId(id)
        THEN Contact(id, "+14165551234",
                     IF live = 1 THEN STATUS_NEW ELSE STATUS_DELETED,
                     "", "", "", "")
        ELSE Contact(id, "+16475550199",
                     IF live = 2 THEN STATUS_CALLBACK ELSE STATUS_DELETED,
                     IsoDate(12), "", "", "")]

\* VStudioCLI after _initialize, on the contact file (db_manager "none") or
\* on the document store
InitSession ==
    /\ db_manager \in {"none", "mongodb"}
    /\ calendar_client \in BOOLEAN
    /\ \E live \in 1..2 :
         /\ csv_file = IF db_manager = "none" THEN SessionFile(live) ELSE <<>>
         /\ db_contacts = IF db_manager = "none" THEN NoContacts
                          ELSE SessionStore(live)
    /\ data = IF db_manager = "none" THEN csv_file
              ELSE LoadFromDatabase(db_contacts, MongoOrder)
    /\ current_index = 0
    /\ editing = -1
    /\ archive = <<>>
    /\ edit_history = <<>>
    /\ today = 15
    /\ last = NoAction
    /\ EmptyQueue /\ NoSaveRunning /\ NoImport /\ NoView /\ SideIdle

\* The outcome handlers, promote and demote.
Next ==
    \/ OutcomeBadNumber
    \/ OutcomeDoNotCall
    \/ OutcomeNoAnswer
    \/ OutcomeCallback
    \/ OutcomeMeeting
    \/ PromoteToClient
    \/ DemoteToCemetery

Spec == InitSession /\ [][Next]_vars

\* The main loop: navigation, delete and the outcome that adds no schedule.
NextLoop ==
    \/ NextRecord
    \/ PrevRecord
    \/ DeleteRecord
    \/ OutcomeNoAnswer

SpecLoop == InitSession /\ [][NextLoop]_vars

\* The retry queue: the handlers that enqueue, and process start (drain).
NextQueue ==
    \/ OutcomeCallback
    \/ OutcomeMeeting
    \/ Startup

\* The contact file and the queue file an earlier run left: a contact never
\* called, and a contact whose meeting was booked three days ago while the
\* calendar failed, so that its create_meeting operation is still queued
\* after `failed` drains that reached the calendar.
QueueSessionFile ==
    <<Contact("contacts_0_7741", "+14165551234", STATUS_NEW, "", "", "", ""),
      [Contact("contacts_1_9032", "+16475550199", STATUS_MEETING_BOOKED, "",
               IsoDateTime(12), "", "")
         EXCEPT !.last_call_at = NowStamp(12),
                !.notes = <<<<12, "meeting booked on " \o IsoDate(12) \o " 14:00">>>>]>>

LeftOperation(failed) ==
    [QueuedOperation(1, "create_meeting", "contacts_1_9032", IsoDateTime(12), "", "")
       EXCEPT !.attempts = failed]

\* The same, for a contact whose row has since been taken out of the contact
\* file: no loaded record carries the operation's record_id.
GoneOperation(failed) ==
    [QueuedOperation(1, "create_meeting", "contacts_2_4410", IsoDateTime(12), "", "")
       EXCEPT !.attempts = failed]

InitQueue ==
    /\ db_manager = "none"
    /\ calendar_client \in BOOLEAN
    /\ csv_file = QueueSessionFile
    /\ db_contacts = NoContacts
    /\ data = csv_file
    /\ \E failed \in 1..(max_attempts - 1) :
         /\ operations \in {<<LeftOperation(failed)>>, <<GoneOperation(failed)>>}
         /\ tried = [q \in 1..MaxEnqueue |-> IF q = 1 THEN failed ELSE 0]
    /\ queue_file = SaveQueue(operations)
    /\ next_qid = 1
    /\ removed = [q \in 1..MaxEnqueue |-> ""]
    /\ current_index = 0
    /\ editing = -1
    /\ archive = <<>>
    /\ edit_history = <<>>
    /\ today = 15
    /\ last = NoAction
    /\ NoSaveRunning /\ NoImport /\ NoView /\ SideIdle

SpecQueue == InitQueue /\ [][NextQueue]_vars

\* Quick-edit mode and the ledger, on the document store.
InitEdit == InitSession /\ db_manager = "mongodb" /\ ~calendar_client

NextEdit ==
    \/ EnterEdit
    \/ LeaveEdit
    \/ EditField
    \/ EditStatusField
    \/ RevertAction

SpecEdit == InitEdit /\ [][NextEdit]_vars

\* The operations that ask the operator to confirm, on the document store:
\* delete, the two scheduling outcomes, promote and demote, and the revert
\* of a ledger entry (here one that promote or demote wrote).
NextConfirm ==
    \/ DeleteRecord
    \/ OutcomeCallback
    \/ OutcomeMeeting
    \/ PromoteToClient
    \/ DemoteToCemetery
    \/ EnterEdit
    \/ LeaveEdit
    \/ RevertAction

SpecConfirm == InitEdit /\ [][NextConfirm]_vars

\* What writes the notes field on the document store: the no-answer outcome
\* (through _add_timestamped_note) and quick-edit mode.
NextNotes ==
    \/ OutcomeNoAnswer
    \/ EnterEdit
    \/ LeaveEdit
    \/ EditNotes
    \/ RevertAction

SpecNotes == InitEdit /\ [][NextNotes]_vars

\* A session on a contact file that holds, besides the contacts of
\* SessionFile, a row without a phone number: _initialize has loaded the
\* file (_load_csv), so data holds the rows the load kept.
InitStored ==
    /\ db_manager = "none"
    /\ calendar_client = FALSE
    /\ \E live \in 1..2, phone \in {"", "+14165551234"} :
         csv_file = SessionFile(live)
                      \o <<Contact("contacts_2_4410", phone, STATUS_NEW, "", "", "", "")>>
    /\ db_contacts = NoContacts
    /\ data = LoadCsvRows(csv_file, 5150).valid_rows
    /\ current_index = 0
    /\ editing = -1
    /\ archive = <<>>
    /\ edit_history = <<>>
    /\ today = 15
    /\ last = NoAction
    /\ EmptyQueue /\ NoSaveRunning /\ NoImport /\ NoView /\ SideIdle

\* The main loop on that file, and a restart of the process.
NextStored ==
    \/ NextRecord
    \/ PrevRecord
    \/ DeleteRecord
    \/ OutcomeNoAnswer
    \/ OutcomeBadNumber
    \/ Startup

SpecStored == InitStored /\ [][NextStored]_vars

\* The priority views over every contact set of the bound.
ViewRows ==
    {[Contact("", "+14165551234", status, cb, mt, "", "") EXCEPT !.last_call_at = ""] :
        status \in {STATUS_NEW, STATUS_CALLBACK, STATUS_DO_NOT_CALL},
        cb \in {"", IsoDate(12)}, mt \in {"", IsoDateTime(15)}}

\* rows whose schedule fields are empty, a date, or text that is no date
DatedRows ==
    {[Contact("", "+14165551234", STATUS_CALLBACK, cb, mt, "", "")
         EXCEPT !.last_call_at = ""] :
        cb \in {"", IsoDate(12), IsoDate(15), "soon"},
        mt \in {"", IsoDateTime(12), IsoDateTime(15), "soon"}}

\* a row as the flat-file backend holds it, with the id of its position
StoredRow(row, i) ==
    [f \in DOMAIN row \cup {"last_updated"} |->
        IF f = "last_updated" THEN ""
        ELSE IF f = "external_row_id" THEN GeneratedId(i - 1, 5150)
        ELSE row[f]]

InitViewOf(rowset) ==
    /\ \E rows \in [1..MaxContacts -> rowset] :
          contacts_data = [i \in 1..MaxContacts |-> StoredRow(rows[i], i)]
    /\ today = 15
    /\ view_result = <<>>
    /\ view_type = "all"
    /\ csv_headers = DOMAIN contacts_data[1]
    /\ data = <<>> /\ csv_file = <<>> /\ db_contacts = NoContacts
    /\ db_manager = "none" /\ calendar_client = FALSE
    /\ current_index = 0 /\ editing = -1
    /\ archive = <<>> /\ edit_history = <<>>
    /\ last = NoAction
    /\ EmptyQueue /\ NoSaveRunning /\ NoImport /\ SideIdle

NextView ==
    \/ GetPriorityViewData
    \/ GetPriorityViewDataMongodb
    \/ GetContacts
    \/ UpdateStatusCsv

InitView == InitViewOf(ViewRows)

SpecView == InitView /\ [][NextView]_vars

\* the ways a status that takes a contact out of the calling list is set
NextStatus ==
    \/ OutcomeBadNumber
    \/ OutcomeDoNotCall
    \/ DeleteRecord
    \/ EnterEdit
    \/ LeaveEdit
    \/ EditStatusTerminal

SpecStatus == InitEdit /\ [][NextStatus]_vars

\* the adapter on a contact file whose columns hold last_updated or not
AdapterRows ==
    {[Contact("", "+14165551234", status, "", "", "", "")
         EXCEPT !.last_call_at = ""] :
        status \in {STATUS_NEW, STATUS_CALLBACK, STATUS_DO_NOT_CALL}}

InitAdapter ==
    /\ \E rows \in [1..MaxContacts -> AdapterRows] :
          contacts_data = [i \in 1..MaxContacts |-> StoredRow(rows[i], i)]
    /\ \E stamped \in BOOLEAN :
          csv_headers = IF stamped THEN DOMAIN contacts_data[1]
                        ELSE DOMAIN contacts_data[1] \ {"last_updated"}
    /\ today = 15
    /\ view_result = <<>>
    /\ view_type = "all"
    /\ data = <<>> /\ csv_file = contacts_data /\ db_contacts = NoContacts
    /\ tmp_file = <<>> /\ backup_file = <<>> /\ save_pc = "idle"
    /\ db_manager = "csv" /\ calendar_client = FALSE
    /\ current_index = 0 /\ editing = -1
    /\ archive = <<>> /\ edit_history = <<>>
    /\ last = NoAction
    /\ EmptyQueue /\ NoImport /\ SideIdle

NextAdapter ==
    \/ GetContactsSorted
    \/ UpdateStatusCsv
    \/ SaveData

SpecAdapter == InitAdapter /\ [][NextAdapter]_vars

\* the priority views over rows with unreadable dates
InitDates == InitViewOf(DatedRows)

NextDates ==
    \/ GetPriorityViewData
    \/ GetPriorityViewDataMongodb

SpecDates == InitDates /\ [][NextDates]_vars

\* The save, step by step, of the session's contact file.
InitSave ==
    /\ db_manager = "none"
    /\ calendar_client = FALSE
    /\ \E live \in 1..2 : csv_file = SessionFile(live)
    /\ data = csv_file
    /\ db_contacts = NoContacts
    /\ current_index = 0 /\ editing = -1
    /\ archive = <<>> /\ edit_history = <<>>
    /\ today = 15
    /\ last = NoAction
    /\ EmptyQueue /\ NoSaveRunning /\ NoImport /\ NoView /\ SideIdle

NextSave ==
    \/ SaveBackup
    \/ SaveOpenTemp
    \/ SaveWriteRow
    \/ SaveCloseTemp
    \/ SaveReplace
    \/ SaveCrash

SpecSave == InitSave /\ [][NextSave]_vars

\* The import of every contact file of the bound.
ImportRows ==
    {Contact(id, phone, status, "", "", "", "") :
        id \in {"", "crm_7"}, phone \in RawPhones, status \in {"", STATUS_CALLBACK}}

InitImport ==
    /\ \E n \in 1..MaxRows : csv_rows \in [1..n -> ImportRows]
    /\ issues = <<>>
    /\ data = <<>> /\ csv_file = <<>> /\ db_contacts = NoContacts
    /\ db_manager = "none" /\ calendar_client = FALSE
    /\ current_index = 0 /\ editing = -1
    /\ archive = <<>> /\ edit_history = <<>>
    /\ today = 15
    /\ last = NoAction
    /\ EmptyQueue /\ NoSaveRunning /\ NoView /\ SideIdle

NextImport ==
    \/ LoadCsv
    \/ MigrateCsvToMongodb

SpecImport == InitImport /\ [][NextImport]_vars

---------------------------------------------------------------------------
(* Placing a call (_make_call), monitoring it (_monitor_call), the outcome  *)
(* menu (_handle_call_outcome) and the interrupt handler (_signal_handler). *)

\* _monitor_call: "Maximum polling attempts before forcing outcome menu"
max_poll_attempts == 30

\* What get_call answers to one poll: the call's data with a status that
\* has not ended or has ended, None (404 or any other code), or the
\* exception _make_request re-raises (timeout, connection error).
GetCallAnswers == {"ringing", "completed", "none", "throw"}

\* _is_call_ended, on the statuses of the model
IsCallEnded(status) ==
    status \in {"completed", "failed", "no-answer", "busy", "cancelled",
                "terminated", "hangup", "ended", "finished"}

\* What terminate_call answers: True (204), False, or an exception.
TerminateAnswers == {"ok", "failed", "throw"}

\* The end of _monitor_call: current_call_id = None, then
\* _handle_call_outcome(final_status) puts the outcome menu up
MonitorEnds(c, final_status) ==
    [c EXCEPT !.pc = "outcome", !.current_call_id = "",
              !.final_status = final_status, !.outcomes = @ + 1]

\* '1': _make_call on the record shown; create_call answers with the call's
\* data, with None, or raises (caught: "Error making call")
MakeCall ==
    /\ LoopRuns
    /\ session = "loop"
    /\ running
    /\ phone_call.pc = "idle"
    /\ \E created \in {"call_77", "none", "throw"} :
        LET idx == DisplayIndex(data, current_index)
        IN  /\ current_index' = idx
            /\ phone_call' =
                 IF created \in {"none", "throw"} THEN NoCall
                 ELSE [NoCall EXCEPT !.pc = "polling", !.current_call_id = created]
            /\ last' = Did("call", idx, <<>>, {}, created = "call_77")
    /\ UNCHANGED <<data, editing, calendar_client, db_manager, queueVars,
                   archive, edit_history, db_contacts, saveVars, importVars,
                   viewVars, ghostQueue, running, session, original, setupVars>>
    /\ UNCHANGED loopVars

\* One turn of the poll loop of _monitor_call (while current_call_id and
\* running and not call_ended).  tick is the parity of the polls made.
PollCall ==
    /\ phone_call.pc = "polling"
    /\ running
    /\ \E answer \in GetCallAnswers :
        LET c      == phone_call
            polled == [c EXCEPT !.tick = 1 - @]
            seen   == IF answer = "none" THEN polled
                      ELSE [polled EXCEPT !.last_status = answer]
        IN  phone_call' =
              IF answer = "throw"
              THEN \* except Exception: last_status = "error", sleep, next turn
                   [polled EXCEPT !.last_status = "error"]
              ELSE IF answer # "none" /\ IsCallEnded(answer)
              THEN MonitorEnds(seen, answer)
              ELSE IF answer = "none" /\ c.poll_count > 10
              THEN MonitorEnds([polled EXCEPT !.last_status = "completed"],
                               "completed")
              ELSE IF c.poll_count >= max_poll_attempts
              THEN MonitorEnds(seen, IF seen.last_status = "none" THEN "unknown"
                                     ELSE seen.last_status)
              ELSE [seen EXCEPT !.poll_count = @ + 1]
    /\ UNCHANGED <<data, current_index, editing, calendar_client, db_manager,
                   queueVars, archive, edit_history, db_contacts, saveVars,
                   importVars, viewVars, last, ghostQueue, running, session,
                   original, setupVars>>
    /\ UNCHANGED loopVars

\* Ctrl+C while the call is monitored.  __init__ installs _signal_handler
\* for SIGINT, so no KeyboardInterrupt is raised: the handler sets running
\* to False and asks terminate_call.  When terminate_call answers, or raises
\* inside the loop's try (inside), the loop ends on running and the outcome
\* menu follows; when it raises elsewhere in _monitor_call the exception
\* leaves _monitor_call, _make_call catches it, the main loop ends on
\* running and _cleanup asks terminate_call again (cleanup).
Interrupt ==
    /\ phone_call.pc = "polling"
    /\ running
    /\ running' = FALSE
    /\ \E answer \in TerminateAnswers :
       \E inside \in AnswersIf(answer = "throw", BOOLEAN) :
       \E cleanup \in AnswersIf(answer = "throw" /\ ~inside, TerminateAnswers) :
        LET c == [phone_call EXCEPT !.interrupted = TRUE, !.terminates = @ + 1]
        IN  IF answer = "throw" /\ ~inside
            THEN /\ phone_call' = [c EXCEPT !.pc = "abandoned",
                                            !.terminates = @ + 1]
                 /\ session' = IF session = "loop"
                               THEN (IF cleanup = "throw" THEN "error" ELSE "ended")
                               ELSE session
            ELSE /\ phone_call' =
                      MonitorEnds(IF answer = "throw"
                                  THEN [c EXCEPT !.last_status = "error"]
                                  ELSE c, "none")
                 /\ session' = session
    /\ UNCHANGED <<data, current_index, editing, calendar_client, db_manager,
                   queueVars, archive, edit_history, db_contacts, saveVars,
                   importVars, viewVars, last, ghostQueue, original, setupVars>>
    /\ UNCHANGED loopVars

\* The outcomes the operator picks in the menu ('3' and '4' ask further
\* questions and are the handlers OutcomeCallback / OutcomeMeeting).
OutcomeChoices == {"1", "2", "5"}

\* outcome_handlers[choice]() on record: _outcome_bad_number ('1'),
\* _outcome_no_answer ('2'), _outcome_do_not_call ('5'), up to _save_csv
CallOutcome(choice, record, a1, a2) ==
    IF choice = "2"
    THEN [record   |-> AddTimestampedNote(
                          [record EXCEPT !.status = STATUS_NO_ANSWER,
                                         !.last_call_at = NowStamp(today)],
                          IsoDate(today) \o " ~ no answer"),
          cal      |-> <<>>,
          archived |-> FALSE,
          op       |-> "no_answer"]
    ELSE LET c == CancelCalendarEvents(record, a1, a2)
             to == IF choice = "1" THEN STATUS_BAD_NUMBER ELSE STATUS_DO_NOT_CALL
         IN  [record   |-> [c.record EXCEPT !.status = to,
                                            !.last_call_at = NowStamp(today)],
              cal      |-> c.cal,
              archived |-> TRUE,
              op       |-> to]

\* _handle_call_outcome: after _monitor_call, or on 'o' in the loop of
\* _work_on_calendar_contact.  The handler reads self.data[current_index]:
\* past the end that is an IndexError, which nothing catches on the way from
\* the calendar loop up to run() (the finally clause restores data and
\* current_index, run() prints the error and cleans up).
HandleCallOutcome ==
    /\ editing = -1
    /\ \/ phone_call.pc = "outcome"
       \/ phone_call.pc = "idle" /\ session = "calendar"
    /\ \E choice \in OutcomeChoices :
        IF current_index >= Len(data)
        THEN /\ session = "calendar"
             /\ session' = "error"
             /\ data' = original.data
             /\ current_index' = original.index
             /\ original' = NoOriginal
             /\ last' = Did("index_error", current_index, <<>>, {}, FALSE)
             /\ UNCHANGED <<phone_call, archive, db_contacts, saveVars>>
        ELSE
          \E a1 \in AnswersIf(choice # "2" /\ calendar_client
                               /\ data[current_index + 1].gcal_callback_event_id # "",
                              CancelAnswers),
             a2 \in AnswersIf(choice # "2" /\ calendar_client
                               /\ data[current_index + 1].gcal_meeting_event_id # "",
                              CancelAnswers),
             up \in StoreAnswers :
            LET record == data[current_index + 1]
                o      == CallOutcome(choice, record, a1, a2)
                d2     == [data EXCEPT ![current_index + 1] = o.record]
            IN  /\ choice = "2" => Len(record.notes) < MaxNotes
                /\ data' = d2
                /\ archive' = IF o.archived THEN Append(archive, ArchiveRow(o.record))
                              ELSE archive
                /\ SaveCsv(d2, current_index, up)
                /\ current_index' = IF o.archived THEN current_index + 1
                                    ELSE current_index
                /\ phone_call' = [phone_call EXCEPT !.pc = "idle"]
                /\ session' = IF session = "loop" /\ ~running THEN "ended"
                              ELSE session
                /\ last' = Did(o.op, current_index, o.cal, {}, TRUE)
                /\ UNCHANGED original
    /\ UNCHANGED <<editing, calendar_client, db_manager, queueVars,
                   edit_history, importVars, viewVars, ghostQueue, running,
                   setupVars>>
    /\ UNCHANGED loopVars

\* A session on the contact file with one contact in play and no calendar.
InitCall == InitSession /\ db_manager = "none" /\ ~calendar_client

NextCall ==
    \/ MakeCall
    \/ PollCall
    \/ Interrupt
    \/ HandleCallOutcome

SpecCall == InitCall /\ [][NextCall]_vars

\* The poll loop keeps running while the call is monitored, and the
\* operator answers the menu.
SpecCallFair ==
    SpecCall /\ WF_vars(PollCall) /\ WF_vars(HandleCallOutcome)

---------------------------------------------------------------------------
(* The adapter's configuration (load_database_config) and construction     *)
(* (CRMDataManager.__init__, _initialize_database).                        *)

\* DatabaseConfig(): the defaults of the dataclass
DatabaseConfig ==
    [use_mongodb |-> FALSE, mongodb_uri |-> "mongodb://localhost:27017/",
     database_name |-> "vstudio_crm"]

\* The environment: each variable unset or set to a text.
EnvSettings ==
    [USE_MONGODB : {"unset", "true", "TRUE", "false"},
     MONGODB_URI : {"unset", "mongodb://env-host:27017/"},
     DATABASE_NAME : {"unset", "env_crm"}]

\* database_config.json: each key absent or present with a value.
FileSettings ==
    [use_mongodb : {"unset", "true", "false"},
     mongodb_uri : {"unset", "mongodb://file-host:27017/"},
     database_name : {"unset", "file_crm"}]

NoFileSettings ==
    [use_mongodb |-> "unset", mongodb_uri |-> "unset", database_name |-> "unset"]

\* str.lower() on the texts of the model
Lower(text) == IF text = "TRUE" THEN "true" ELSE text

\* load_database_config: the defaults, then the environment variables, then
\* the keys of the config file when it exists and json.load reads it
\* (file_config.get(key, config.key) keeps the value so far for a key the
\* file does not have)
LoadDatabaseConfig(env, file_state, file) ==
    LET c0 == DatabaseConfig
        c1 == [use_mongodb   |-> IF Lower(env.USE_MONGODB) = "true" THEN TRUE
                                 ELSE c0.use_mongodb,
               mongodb_uri   |-> IF env.MONGODB_URI # "unset" THEN env.MONGODB_URI
                                 ELSE c0.mongodb_uri,
               database_name |-> IF env.DATABASE_NAME # "unset" THEN env.DATABASE_NAME
                                 ELSE c0.database_name]
    IN  IF file_state # "present" THEN c1
        ELSE [use_mongodb   |-> IF file.use_mongodb # "unset"
                                THEN file.use_mongodb = "true"
                                ELSE c1.use_mongodb,
              mongodb_uri   |-> IF file.mongodb_uri # "unset" THEN file.mongodb_uri
                                ELSE c1.mongodb_uri,
              database_name |-> IF file.database_name # "unset"
                                THEN file.database_name
                                ELSE c1.database_name]

\* `from database import ...` at the top of vstudio_cli.py.  database.py
\* guards its own import of pymongo (MONGODB_AVAILABLE) and then imports
\* mongodb_schema, which imports pymongo unguarded: without the driver the
\* import raises ImportError and DATABASE_INTEGRATION is False.
ImportDatabase ==
    /\ adapter.state = "unloaded"
    /\ adapter' = IF adapter.driver
                  THEN [adapter EXCEPT !.state = "imported"]
                  ELSE [adapter EXCEPT !.state = "import_failed", !.raised = TRUE]
    /\ UNCHANGED <<data, current_index, editing, calendar_client, db_manager,
                   queueVars, archive, edit_history, db_contacts, saveVars,
                   importVars, viewVars, last, ghostQueue, callVars, config>>
    /\ UNCHANGED loopVars

\* VStudioCLI._initialize_database, first step: config = load_database_config()
LoadConfig ==
    /\ adapter.state = "imported"
    /\ ~config.loaded
    /\ config' = [config EXCEPT !.loaded = TRUE,
                    !.result = LoadDatabaseConfig(config.env, config.file_state,
                                                  config.file)]
    /\ UNCHANGED <<data, current_index, editing, calendar_client, db_manager,
                   queueVars, archive, edit_history, db_contacts, saveVars,
                   importVars, viewVars, last, ghostQueue, callVars, adapter>>
    /\ UNCHANGED loopVars

\* What CRMDatabase.connect() and the index set-up after it can do.
ConnectAnswers == {"ok", "refused", "throw", "index_error"}

\* CRMDataManager(config): _initialize_database.  The backend that serves
\* an operation is the one get_contacts and the others dispatch to
\* (config.use_mongodb and self.mongodb).
InitializeDatabase ==
    /\ adapter.state = "imported"
    /\ config.loaded
    /\ \E store \in AnswersIf(config.result.use_mongodb, ConnectAnswers) :
        LET connected == config.result.use_mongodb /\ store = "ok"
        IN  /\ adapter' = [adapter EXCEPT !.state = "constructed",
                             !.store = IF config.result.use_mongodb THEN store
                                       ELSE "unused",
                             !.mongodb = connected,
                             !.use_mongodb = connected,
                             !.served_by = IF connected THEN "mongodb" ELSE "csv"]
            /\ db_manager' = IF connected THEN "mongodb" ELSE "csv"
    /\ UNCHANGED <<data, current_index, editing, calendar_client, queueVars,
                   archive, edit_history, db_contacts, saveVars, importVars,
                   viewVars, last, ghostQueue, callVars, config>>
    /\ UNCHANGED loopVars

\* Before the program starts: whether the driver is installed, what the
\* environment and the config file say.
InitConfig ==
    /\ \E driver \in BOOLEAN :
         adapter = [state |-> "unloaded", driver |-> driver, raised |-> FALSE,
                    store |-> "unused", mongodb |-> FALSE, use_mongodb |-> FALSE,
                    served_by |-> "none"]
    /\ \E env \in EnvSettings, file_state \in {"absent", "unreadable", "present"} :
       \E file \in IF file_state = "present" THEN FileSettings ELSE {NoFileSettings} :
         config = [loaded |-> FALSE, env |-> env, file_state |-> file_state,
                   file |-> file, result |-> DatabaseConfig]
    /\ data = <<>> /\ csv_file = <<>> /\ db_contacts = NoContacts
    /\ db_manager = "none" /\ calendar_client = FALSE
    /\ current_index = 0 /\ editing = -1
    /\ archive = <<>> /\ edit_history = <<>>
    /\ today = 15
    /\ last = NoAction
    /\ EmptyQueue /\ NoSaveRunning /\ NoImport /\ NoView
    /\ phone_call = NoCall /\ running = TRUE /\ session = "loop"
    /\ original = NoOriginal
    /\ current_view = "all" /\ loop_pc = "input"

NextConfig ==
    \/ ImportDatabase
    \/ LoadConfig
    \/ InitializeDatabase

SpecConfig == InitConfig /\ [][NextConfig]_vars

---------------------------------------------------------------------------
(* The calendar view's loop on one contact (_work_on_calendar_contact).    *)
(* The loop swaps self.data for a list holding the contact of the chosen   *)
(* event and restores it in its finally clause.  Between the loop and      *)
(* run() only ValueError is caught (_show_day_details, _show_calendar_view) *)
(* so any other exception of a handler ends the session in run().          *)

\* The calendar's events: the stored contacts with a callback or a meeting
\* (_get_month_events over db_manager.get_contacts()).
ScheduledContacts ==
    {id \in DOMAIN db_contacts :
        db_contacts[id].callback_on # "" \/ db_contacts[id].meeting_at # ""}

\* The finally clause, after an exception that run() then reports.
CalendarRaises(what) ==
    /\ session' = "error"
    /\ data' = original.data
    /\ current_index' = original.index
    /\ original' = NoOriginal
    /\ last' = Did(what, current_index, <<>>, {}, FALSE)

\* The operator picks an event of the day: self.data = [contact]
WorkOnCalendarContact ==
    /\ session = "loop" /\ running
    /\ editing = -1
    /\ phone_call.pc = "idle"
    /\ db_manager # "none"
    /\ Len(archive) < MaxArchived
    /\ \E id \in ScheduledContacts :
        /\ original' = [data |-> data, index |-> current_index]
        /\ data' = <<db_contacts[id]>>
        /\ current_index' = 0
        /\ session' = "calendar"
        /\ last' = Did("work_on_contact", 0, <<>>, {}, TRUE)
    /\ UNCHANGED <<editing, calendar_client, db_manager, queueVars, archive,
                   edit_history, db_contacts, saveVars, importVars, viewVars,
                   ghostQueue, phone_call, running, setupVars>>
    /\ UNCHANGED loopVars

\* 'c' or 'd': return, through the finally clause
ReturnToCalendar ==
    /\ session = "calendar"
    /\ phone_call.pc = "idle"
    /\ session' = "loop"
    /\ data' = original.data
    /\ current_index' = original.index
    /\ original' = NoOriginal
    /\ last' = Did("return_to_calendar", current_index, <<>>, {}, TRUE)
    /\ UNCHANGED <<editing, calendar_client, db_manager, queueVars, archive,
                   edit_history, db_contacts, saveVars, importVars, viewVars,
                   ghostQueue, phone_call, running, setupVars>>
    /\ UNCHANGED loopVars

\* '2': self._send_sms(), a method VStudioCLI does not have (AttributeError)
CalendarText ==
    /\ session = "calendar"
    /\ phone_call.pc = "idle"
    /\ CalendarRaises("attribute_error")
    /\ UNCHANGED <<editing, calendar_client, db_manager, queueVars, archive,
                   edit_history, db_contacts, saveVars, importVars, viewVars,
                   ghostQueue, phone_call, running, setupVars>>
    /\ UNCHANGED loopVars

\* '5': a blank note is dropped; any other is passed to _add_note(self),
\* which takes no argument (TypeError)
CalendarNote ==
    /\ session = "calendar"
    /\ phone_call.pc = "idle"
    /\ \E note \in {" ", "left voicemail"} :
        IF Strip(note) = ""
        THEN /\ last' = Did("note_blank", current_index, <<>>, {}, FALSE)
             /\ UNCHANGED <<data, current_index, session, original>>
        ELSE CalendarRaises("type_error")
    /\ UNCHANGED <<editing, calendar_client, db_manager, queueVars, archive,
                   edit_history, db_contacts, saveVars, importVars, viewVars,
                   ghostQueue, phone_call, running, setupVars>>
    /\ UNCHANGED loopVars

\* A session on the document store, where the calendar view is offered.
InitCalendar == InitSession /\ db_manager = "mongodb"

NextCalendar ==
    \/ WorkOnCalendarContact
    \/ ReturnToCalendar
    \/ HandleCallOutcome
    \/ CalendarText
    \/ CalendarNote

SpecCalendar == InitCalendar /\ [][NextCalendar]_vars

---------------------------------------------------------------------------
(* _main_loop step by step, with the views of _switch_view.  loop_pc is    *)
(* the position inside one iteration: "top" (the while condition), "skip1" *)
(* and "skip2" (the two inner while loops), "bounds" (the test             *)
(* current_index >= len(data)), "exit_check" (the break), "input"          *)
(* (_display_record, _get_user_input, _handle_action), "done".             *)

\* line 978: should_skip_terminal
ShouldSkipTerminal_Always(view) == TRUE
ShouldSkipTerminal(view) == view \notin {"clients", "cemetery"}

\* line 986: if self.current_index >= len(self.data)
PastEnd_OffByOne(d, ci) == ci > Len(d)
PastEnd(d, ci) == ci >= Len(d)

\* db_manager.get_contacts_by_status(status), which _switch_view calls for
\* the clients and cemetery views: the stored contacts with that status
\* (clients: status close_won; cemetery: status close_lost)
GetContactsByStatus(status) ==
    LET keep(id) == db_contacts[id].status = status
    IN  SelectSeq(MongoOrder, keep)

\* _switch_view: the contacts the adapter returns for the view, converted to
\* records (notes, last_call_at and the event ids blank); every record has
\* the same company, so the sort keeps the order
ViewRecords(view_name) ==
    LET ids == CASE view_name = "clients"  -> GetContactsByStatus(STATUS_CLOSE_WON)
                 [] view_name = "cemetery" -> GetContactsByStatus(STATUS_CLOSE_LOST)
                 [] OTHER                  -> MongoOrder
    IN  [i \in 1..Len(ids) |->
           LET c == db_contacts[ids[i]]
           IN  Contact(c.external_row_id, c.phone_number, c.status,
                       c.callback_on, c.meeting_at, "", "")]

\* One step of _main_loop outside _handle_action.
MainLoop ==
    /\ session = "loop"
    /\ \/ /\ loop_pc = "top"
          /\ loop_pc' = IF ~running \/ data = <<>> THEN "done"
                        ELSE IF ShouldSkipTerminal(current_view) THEN "skip1"
                        ELSE "bounds"
          /\ last' = Did("loop", current_index, <<>>, {}, TRUE)
          /\ UNCHANGED current_index
       \/ /\ loop_pc \in {"skip1", "skip2"}
          /\ IF current_index < Len(data)
                /\ data[current_index + 1].status \in TERMINAL_STATUSES
             THEN /\ current_index' = current_index + 1
                  /\ UNCHANGED loop_pc
             ELSE /\ loop_pc' = IF loop_pc = "skip1" THEN "bounds" ELSE "exit_check"
                  /\ UNCHANGED current_index
          /\ UNCHANGED last
       \/ /\ loop_pc = "bounds"
          /\ IF PastEnd(data, current_index)
             THEN /\ current_index' = 0
                  /\ loop_pc' = IF ShouldSkipTerminal(current_view) THEN "skip2"
                                ELSE "exit_check"
             ELSE /\ loop_pc' = "input"
                  /\ UNCHANGED current_index
          /\ UNCHANGED last
       \/ /\ loop_pc = "exit_check"
          /\ loop_pc' = IF ShouldSkipTerminal(current_view)
                           /\ current_index >= Len(data)
                        THEN "done" ELSE "input"
          /\ UNCHANGED <<current_index, last>>
    /\ UNCHANGED <<data, editing, calendar_client, db_manager, queueVars, archive,
                   edit_history, db_contacts, saveVars, importVars, viewVars,
                   ghostQueue, callVars, setupVars, current_view>>

\* The keys of _handle_action the model follows: next, previous, delete
\* (confirmed), the no-answer outcome, demote (confirmed), quit.
ActionKeys == {"j", "k", "4", "o", "m", "q"}

\* _display_record, _get_user_input and _handle_action for those keys
HandleAction ==
    /\ session = "loop"
    /\ loop_pc = "input"
    /\ loop_pc' = "top"
    /\ \E action \in ActionKeys, stored \in BOOLEAN, up \in BOOLEAN :
        LET record == data[current_index + 1]
        IN  CASE action = "j" ->
                   /\ current_index' = current_index + 1
                   /\ last' = Did("next", current_index, <<>>, {}, TRUE)
                   /\ UNCHANGED <<data, archive, edit_history, db_contacts,
                                  saveVars, running>>
              [] action = "k" ->
                   /\ current_index' = IF current_index > 0 THEN current_index - 1
                                       ELSE current_index
                   /\ last' = Did("prev", current_index, <<>>, {}, TRUE)
                   /\ UNCHANGED <<data, archive, edit_history, db_contacts,
                                  saveVars, running>>
              [] action = "4" ->
                   LET r2 == [record EXCEPT !.status = STATUS_DELETED]
                       d2 == [data EXCEPT ![current_index + 1] = r2]
                   IN  /\ Len(archive) + Len(edit_history) < MaxLoopChanges
                       /\ data' = d2
                       /\ archive' = Append(archive, ArchiveRow(r2))
                       /\ SaveCsv(d2, current_index, up)
                       /\ current_index' = current_index + 1
                       /\ last' = Did("delete", current_index, <<>>, {}, TRUE)
                       /\ UNCHANGED <<edit_history, running>>
              [] action = "o" ->
                   LET o  == CallOutcome("2", record, "ok", "ok")
                       d2 == [data EXCEPT ![current_index + 1] = o.record]
                   IN  /\ Len(record.notes) < MaxNotes
                       /\ data' = d2
                       /\ SaveCsv(d2, current_index, up)
                       /\ last' = Did(o.op, current_index, <<>>, {}, TRUE)
                       /\ UNCHANGED <<current_index, archive, edit_history, running>>
              [] action = "m" ->
                   LET pd == PromoteDemote(record, STATUS_CLOSE_LOST, stored, up)
                   IN  /\ db_manager # "none"
                       /\ record.external_row_id # ""
                       /\ Len(archive) + Len(edit_history) < MaxLoopChanges
                       /\ edit_history' = pd.history
                       /\ db_contacts' = pd.contacts
                       /\ data' = [data EXCEPT ![current_index + 1] = pd.record]
                       /\ last' = Did("demote", current_index, <<>>, {}, pd.ok)
                       /\ UNCHANGED <<current_index, archive, saveVars, running>>
              [] action = "q" ->
                   /\ running' = FALSE
                   /\ last' = Did("quit", current_index, <<>>, {}, TRUE)
                   /\ UNCHANGED <<data, current_index, archive, edit_history,
                                  db_contacts, saveVars>>
    /\ UNCHANGED <<editing, calendar_client, db_manager, queueVars, importVars,
                   viewVars, ghostQueue, phone_call, session, original,
                   setupVars, current_view>>

\* _switch_view, line 2199: if not new_data
NoContactsFound_Never(new_data) == FALSE
NoContactsFound(new_data) == new_data = <<>>

\* 'a', 'c', 'z' in _handle_action: _switch_view
SwitchView ==
    /\ session = "loop"
    /\ loop_pc = "input"
    /\ db_manager # "none"
    /\ loop_pc' = "top"
    /\ \E view_name \in {"all", "clients", "cemetery"} :
        LET new_data == ViewRecords(view_name)
        IN  IF NoContactsFound(new_data)
            THEN /\ last' = [op |-> "switch_view", index |-> current_index,
                             cal |-> <<>>, queued |-> {}, ok |-> FALSE,
                             entry |-> 0, view |-> view_name]
                 /\ UNCHANGED <<data, current_index, current_view>>
            ELSE /\ current_view' = view_name
                 /\ data' = new_data
                 /\ current_index' = 0
                 /\ last' = [op |-> "switch_view", index |-> 0, cal |-> <<>>,
                             queued |-> {}, ok |-> TRUE, entry |-> 0,
                             view |-> view_name]
    /\ UNCHANGED <<editing, calendar_client, db_manager, queueVars, archive,
                   edit_history, db_contacts, saveVars, importVars, viewVars,
                   ghostQueue, callVars, setupVars>>

\* A session on the document store entering _main_loop in the all view; the
\* second contact of the store may already be a client.
InitMainLoop ==
    /\ db_manager = "mongodb"
    /\ calendar_client = FALSE
    /\ \E live \in 1..2, client \in BOOLEAN :
         db_contacts = IF client
                       THEN [SessionStore(live) EXCEPT
                               ![MongoOrder[2]].status = STATUS_CLOSE_WON]
                       ELSE SessionStore(live)
    /\ csv_file = <<>>
    /\ data = LoadFromDatabase(db_contacts, MongoOrder)
    /\ current_index = 0
    /\ editing = -1
    /\ archive = <<>>
    /\ edit_history = <<>>
    /\ today = 15
    /\ last = NoAction
    /\ EmptyQueue /\ NoSaveRunning /\ NoImport /\ NoView
    /\ phone_call = NoCall /\ running = TRUE /\ session = "loop"
    /\ original = NoOriginal /\ config = NoConfig /\ adapter = NoAdapter
    /\ current_view = "all" /\ loop_pc = "top"

NextMainLoop ==
    \/ MainLoop
    \/ HandleAction
    \/ SwitchView

SpecMainLoop == InitMainLoop /\ [][NextMainLoop]_vars

\* The loop's own steps are taken whenever they can be; the operator may
\* stay at the prompt for ever.
SpecMainLoopFair == SpecMainLoop /\ WF_vars(MainLoop)

---------------------------------------------------------------------------
(* _switch_view on a priority view, with the sort of _sort_data_by_priority *)
(* over records that carry a company.                                      *)

\* company names, and the place of record.get('company', '').lower() in
\* string order
Companies == {"Acme", "Birch"}

CompanyRank(record) == IF record.company = "Acme" THEN 1 ELSE 2

\* priority_key, overdue: max(callback_days, meeting_days)
DaysOverdue(record, as_of) ==
    LET cb == ParseDay(record.callback_on)
        mt == ParseDay(record.meeting_at)
        callback_days == IF cb # 0 /\ cb < as_of THEN as_of - cb ELSE 0
        meeting_days  == IF mt # 0 /\ mt < as_of THEN as_of - mt ELSE 0
    IN  IF callback_days >= meeting_days THEN callback_days ELSE meeting_days

\* priority_key, today: the earliest time of day in minutes; a callback of
\* today counts as 10:00, a meeting as its own time (14:00 in the model),
\* datetime.max.time() when nothing is due today
EarliestTime(record, as_of) ==
    IF ParseDay(record.callback_on) = as_of THEN 600
    ELSE IF ParseDay(record.meeting_at) = as_of THEN 840
    ELSE 1440

PriorityKey(record, view_name, as_of) ==
    IF view_name = "overdue" THEN 0 - DaysOverdue(record, as_of)
    ELSE IF view_name = "today" THEN EarliestTime(record, as_of)
    ELSE CompanyRank(record)

\* sorted(data, key=priority_key): ascending and stable
RECURSIVE SortDataByPriority(_, _, _)
SortDataByPriority(d, view_name, as_of) ==
    IF d = <<>> THEN <<>>
    ELSE LET front == SortDataByPriority(SubSeq(d, 1, Len(d) - 1), view_name, as_of)
             r     == d[Len(d)]
             key(x) == PriorityKey(x, view_name, as_of)
             n     == Cardinality({i \in 1..Len(front) : key(front[i]) <= key(r)})
         IN  SubSeq(front, 1, n) \o <<r>> \o SubSeq(front, n + 1, Len(front))

\* the csv_record _switch_view builds of a contact
ViewRecord(contact) ==
    [Contact(contact.external_row_id, contact.phone_number, contact.status,
             contact.callback_on, contact.meeting_at, "", "")
       EXCEPT !.last_call_at = ""] @@ [company |-> contact.company]

\* 't', 'v', 'n' in _handle_action: _switch_view to a priority view
SwitchPriorityView ==
    /\ db_manager # "none"
    /\ \E view_name \in {"today", "overdue", "new"} :
        LET new_data == GetPriorityViewDataOn(db_manager, contacts_data, {},
                                              view_name, today)
        IN  IF new_data = <<>>
            THEN /\ last' = [op |-> "switch_view", view |-> view_name, ok |-> FALSE]
                 /\ UNCHANGED <<data, current_index, current_view>>
            ELSE /\ current_view' = view_name
                 /\ data' = SortDataByPriority(
                               [i \in 1..Len(new_data) |-> ViewRecord(new_data[i])],
                               view_name, today)
                 /\ current_index' = 0
                 /\ last' = [op |-> "switch_view", view |-> view_name, ok |-> TRUE]
    /\ UNCHANGED <<editing, calendar_client, db_manager, queueVars, archive,
                   edit_history, db_contacts, saveVars, importVars, viewVars,
                   ghostQueue, callVars, setupVars, loop_pc>>

\* rows of the flat file with a company and a schedule
CompanyRows ==
    {Contact("", "+14165551234", STATUS_NEW, cb, mt, "", "") @@ [company |-> c] :
        c \in Companies,
        cb \in {"", IsoDate(12), IsoDate(15)},
        mt \in {"", IsoDateTime(12), IsoDateTime(15)}}

\* a session on the adapter of the flat file
InitSortOf(rowset) ==
    /\ \E rows \in [1..MaxContacts -> rowset] :
          contacts_data = [i \in 1..MaxContacts |-> StoredRow(rows[i], i)]
    /\ today = 15
    /\ view_result = <<>>
    /\ view_type = "all"
    /\ csv_headers = DOMAIN contacts_data[1]
    /\ data = contacts_data /\ csv_file = <<>> /\ db_contacts = NoContacts
    /\ db_manager = "csv" /\ calendar_client = FALSE
    /\ current_index = 0 /\ editing = -1
    /\ archive = <<>> /\ edit_history = <<>>
    /\ last = NoAction
    /\ EmptyQueue /\ NoSaveRunning /\ NoImport /\ SideIdle

InitSort == InitSortOf(CompanyRows)

SpecSort == InitSort /\ [][SwitchPriorityView]_vars

\* _get_urgency_info: what the record's display says of its schedule, as
\* the kind of message and the days it counts; the callback is looked at
\* first, the meeting when the callback is absent, unreadable or to come
GetUrgencyInfo_MeetingFirst(record, as_of) ==
    LET cb == ParseDay(record.callback_on)
        mt == ParseDay(record.meeting_at)
    IN  IF mt # 0 /\ mt < as_of THEN [kind |-> "meeting_overdue", days |-> as_of - mt]
        ELSE IF mt # 0 /\ mt = as_of THEN [kind |-> "meeting_today", days |-> 0]
        ELSE IF cb # 0 /\ cb < as_of THEN [kind |-> "overdue", days |-> as_of - cb]
        ELSE IF cb # 0 /\ cb = as_of THEN [kind |-> "due_today", days |-> 0]
        ELSE [kind |-> "", days |-> 0]
GetUrgencyInfo(record, as_of) ==
    LET cb == ParseDay(record.callback_on)
        mt == ParseDay(record.meeting_at)
    IN  IF cb # 0 /\ cb < as_of THEN [kind |-> "overdue", days |-> as_of - cb]
        ELSE IF cb # 0 /\ cb = as_of THEN [kind |-> "due_today", days |-> 0]
        ELSE IF mt # 0 /\ mt < as_of THEN [kind |-> "meeting_overdue", days |-> as_of - mt]
        ELSE IF mt # 0 /\ mt = as_of THEN [kind |-> "meeting_today", days |-> 0]
        ELSE [kind |-> "", days |-> 0]

\* _display_record of the record the loop shows
DisplayRecord ==
    /\ LoopRuns
    /\ LET idx == DisplayIndex(data, current_index)
       IN  /\ current_index' = idx
           /\ last' = [op |-> "display", index |-> idx, ok |-> TRUE,
                       urgency |-> GetUrgencyInfo(data[idx + 1], today)]
    /\ UNCHANGED <<data, editing, calendar_client, db_manager, queueVars,
                   archive, edit_history, db_contacts, saveVars, importVars,
                   viewVars, ghostQueue>>
    /\ UNCHANGED sideVars

\* rows with a callback five days ago, today or none, and a meeting
OverdueRows ==
    {Contact("", "+14165551234", STATUS_CALLBACK, cb, mt, "", "")
        @@ [company |-> "Acme"] :
        cb \in {"", IsoDate(10), IsoDate(15)},
        mt \in {"", IsoDateTime(12), IsoDateTime(15)}}

InitOverdue == InitSortOf(OverdueRows)

NextOverdue ==
    \/ GetPriorityViewData
    \/ SwitchPriorityView
    \/ DisplayRecord

SpecOverdue == InitOverdue /\ [][NextOverdue]_vars

---------------------------------------------------------------------------
(* Properties of the retry queue.                                          *)

QueuedIds == {operations[i].qid : i \in 1..Len(operations)}

\* C1: across any number of drains a queued calendar operation is attempted
\* at most max_attempts times: the attempts counter of an operation never
\* exceeds max_attempts, an operation still queued has failed fewer than
\* max_attempts times, the calendar is asked at most max_attempts times for
\* it, and once it was given up it is out of the queue (in memory and on
\* disk), stays out, and no later drain asks the calendar for it again.
C1_RetryBound ==
    [][/\ \A i \in 1..Len(operations') :
            /\ operations'[i].attempts < operations'[i].max_attempts
            /\ operations'[i].max_attempts = max_attempts
       /\ queue_file' = operations'
       /\ \A q \in DOMAIN tried' :
            /\ tried'[q] <= max_attempts
            /\ removed'[q] = "failed" => q \notin QueuedIds'
            /\ removed[q] = "failed" =>
                  /\ removed'[q] = "failed"
                  /\ tried'[q] = tried[q]]_vars

\* A drain has just given up an operation enqueued in this behaviour, after
\* the calendar failed max_attempts times for it.
C1_Witness ==
    /\ last.op = "startup"
    /\ \E q \in DOMAIN removed :
          q > 1 /\ removed[q] = "failed" /\ tried[q] = max_attempts

---------------------------------------------------------------------------
(* Properties of the outcome handlers.                                     *)

\* C2: a confirmed callback or meeting outcome leaves the record with the new
\* status, the schedule field, last_call_at and one more note, and (on the
\* contact file) saved, whatever the calendar create call did.
C2_TransitionCommitted ==
    [][(last'.op \in {"callback", "meeting"} /\ last'.ok) =>
         LET idx    == DisplayIndex(data, current_index)
             before == data[idx + 1]
             after  == data'[idx + 1]
             n      == Len(before.notes)
         IN  \E days \in {d \in DaysEntered : d >= 0} :
               /\ Len(after.notes) = n + 1
               /\ SubSeq(after.notes, 1, n) = before.notes
               /\ IF last'.op = "callback"
                  THEN /\ after.status = STATUS_CALLBACK
                       /\ after.callback_on = IsoDate(today + days)
                       /\ after.notes[n + 1] =
                            <<today, "callback scheduled for " \o IsoDate(today + days)>>
                  ELSE /\ after.status = STATUS_MEETING_BOOKED
                       /\ after.meeting_at = IsoDateTime(today + days)
                       /\ after.notes[n + 1] =
                            <<today, "meeting booked on " \o IsoDate(today + days)
                                       \o " 14:00">>
               /\ after.last_call_at = NowStamp(today)
               /\ db_manager = "none" => csv_file' = data']_vars

\* A meeting was booked while the calendar create call threw.
C2_Witness ==
    /\ last.op = "meeting" /\ last.ok
    /\ last.cal = <<CalCall("create_meeting", "", "throw")>>
    /\ data[last.index + 1].status = STATUS_MEETING_BOOKED
    /\ data[last.index + 1].meeting_at = IsoDateTime(today + 1)
    /\ data[last.index + 1].notes # <<>>

\* C3: every calendar call of an outcome handler that throws or returns
\* nothing / false puts a matching operation (create_callback,
\* create_meeting, cancel) on the retry queue.
C3_FailedCallQueued ==
    [][\A i \in 1..Len(last'.cal) :
          last'.cal[i].answer \in {"none", "throw"} =>
             \E k \in (Len(operations) + 1)..Len(operations') :
                /\ operations'[k].operation = last'.cal[i].call
                /\ operations'[k].record_id =
                      data[DisplayIndex(data, current_index) + 1].external_row_id]_vars

\* C4: bad_number / do_not_call on a contact holding calendar event ids asks
\* the calendar to cancel each held id, sets the status and appends exactly
\* one copy of the contact, with the new status, to the archive.
C4_Step(needs_client) ==
    (last'.op \in {"bad_number", "do_not_call"}) =>
       LET idx    == DisplayIndex(data, current_index)
           before == data[idx + 1]
           after  == data'[idx + 1]
           held   == {before.gcal_callback_event_id, before.gcal_meeting_event_id}
                        \ {""}
           asked  == {last'.cal[i].event_id : i \in 1..Len(last'.cal)}
       IN  /\ (~needs_client \/ calendar_client) => held \subseteq asked
           /\ \A i \in 1..Len(last'.cal) : last'.cal[i].call = "cancel"
           /\ after.status = last'.op
           /\ Len(archive') = Len(archive) + 1
           /\ SubSeq(archive', 1, Len(archive)) = archive
           /\ archive'[Len(archive')].record = after

C7_PromoteLedger ==
    [][(last'.op \in {"promote", "demote"}) =>
         LET idx    == DisplayIndex(data, current_index)
             before == data[idx + 1]
             to     == IF last'.op = "promote" THEN STATUS_CLOSE_WON
                       ELSE STATUS_CLOSE_LOST
         IN  /\ data'[idx + 1].status = to
             /\ Len(edit_history') = Len(edit_history) + 1
             /\ SubSeq(edit_history', 1, Len(edit_history)) = edit_history
             /\ LET e == edit_history'[Len(edit_history')]
                IN  /\ e.contact_id = before.external_row_id
                    /\ e.field = "status"
                    /\ e.old_value = before.status
                    /\ e.new_value = to]_vars

ScheduleFields ==
    {"gcal_callback_event_id", "gcal_meeting_event_id", "callback_on", "meeting_at"}

---------------------------------------------------------------------------
(* Properties of the ledger.                                               *)

\* C6: after a tracked edit old -> new and a confirmed revert of its entry
\* the field equals old again and the ledger holds (old -> new) and then
\* (new -> old): the revert adds exactly that entry and touches no other.
C6_RevertRestores ==
    [][(last'.op = "revert") =>
         LET e   == edit_history[last'.entry]
             cur == data'[editing + 1]
         IN  /\ cur[e.field] = e.old_value
             /\ Len(edit_history') = Len(edit_history) + 1
             /\ SubSeq(edit_history', 1, Len(edit_history)) = edit_history
             /\ LET r == edit_history'[Len(edit_history')]
                IN  /\ r.contact_id = e.contact_id
                    /\ r.field = e.field
                    /\ r.old_value = e.new_value
                    /\ r.new_value = e.old_value]_vars

---------------------------------------------------------------------------
(* Properties of the views, the save and the import.                       *)

\* C5: no contact whose status is terminal is returned by the all, today,
\* overdue or new view; in particular a contact promoted to close_won is not
\* returned by overdue although its callback_on is in the past.
C5_TerminalExcluded ==
    last.op \in {"view", "get_contacts"} =>
       \A i \in 1..Len(view_result) : view_result[i].status \notin TERMINAL_STATUSES

\* C9: until the rename the contact file is the complete file the save found;
\* the file changes only by the rename, to a temporary file holding every row
\* of the data being saved, and at that moment the backup is a copy of the
\* file being replaced.
C9_AtomicSave ==
    [][/\ csv_file' # csv_file =>
            /\ save_pc = "written" /\ save_pc' = "idle"
            /\ csv_file' = tmp_file
            /\ tmp_file = last.target
            /\ backup_file = csv_file
       /\ (last'.op = "save" /\ ~last'.renamed) =>
            /\ csv_file' = last'.prev
            /\ backup_file' = last'.prev
       /\ (last'.op = "save" /\ last'.renamed) =>
            /\ csv_file' = last'.target
            /\ backup_file' = last'.prev]_vars

\* The process died while the rows of a changed file were being written.
C9_Witness ==
    /\ last.op = "save" /\ last.crashed /\ ~last.renamed
    /\ tmp_file # <<>>
    /\ Len(tmp_file) < Len(last.target)
    /\ csv_file = last.prev
    /\ csv_file # last.target

\* C10: the import drops no row: every row of the file is in the loaded set,
\* a row with an empty or un-normalizable phone flagged invalid_phone, and
\* the number of offending rows is the number reported.
C10_ImportKeepsRows ==
    (last.op = "load_csv") =>
       /\ Len(data) = Len(csv_rows)
       /\ \A i \in 1..Len(data) :
             NormalizePhoneNumber(Strip(csv_rows[i].phone_number)) = ""
                <=> data[i].status = STATUS_INVALID_PHONE
       /\ Len(issues) =
             Cardinality({i \in 1..Len(csv_rows) :
                 NormalizePhoneNumber(Strip(csv_rows[i].phone_number)) = ""})

\* The status values the program defines (STATUS_* and 'invalid_phone').
AllStatuses ==
    {STATUS_NEW, STATUS_NO_ANSWER, STATUS_CALLBACK, STATUS_MEETING_BOOKED,
     STATUS_BAD_NUMBER, STATUS_DO_NOT_CALL, STATUS_DELETED, STATUS_CLOSE_WON,
     STATUS_CLOSE_LOST, STATUS_INVALID_PHONE}

\* C11: every contact's status is one of the defined values after every
\* step, and a contact only becomes invalid_phone through import validation
\* (the load of the contact file), never through an outcome or an edit.
C11_StatusEnum ==
    [][\A i \in 1..Len(data') :
          /\ data'[i].status \in AllStatuses
          /\ (/\ data'[i].status = STATUS_INVALID_PHONE
              /\ i <= Len(data)
              /\ data[i].status # STATUS_INVALID_PHONE)
                => last'.op \in {"load_csv", "startup"}]_vars

\* C12: a row imported with no status and no external_row_id (and a phone
\* number that normalizes) is loaded with status new and a non-empty
\* external_row_id, and a later load of the same contact file, by the next
\* process run, gives every contact the external_row_id it had before.
C12_StableRowId ==
    [][(last'.op = "load_csv") =>
         /\ \A i \in 1..Len(csv_rows) :
              (/\ csv_rows[i].status = ""
               /\ csv_rows[i].external_row_id = ""
               /\ NormalizePhoneNumber(Strip(csv_rows[i].phone_number)) # "")
                 => \E k \in 1..Len(data') :
                      /\ data'[k].phone_number =
                            NormalizePhoneNumber(Strip(csv_rows[i].phone_number))
                      /\ data'[k].status = STATUS_NEW
                      /\ data'[k].external_row_id # ""
         /\ (last.op = "load_csv") =>
              /\ Len(data') = Len(data)
              /\ \A k \in 1..Len(data) :
                   data'[k].external_row_id = data[k].external_row_id]_vars

\* C13: call monitoring always ends: whatever get_call answers, poll after
\* poll, a call that is being polled eventually leaves the poll loop.
C13_MonitoringEnds ==
    [](phone_call.pc = "polling" => <>(phone_call.pc # "polling"))

\* C14: an interrupt during call monitoring makes one attempt to terminate
\* the call and brings the outcome menu up exactly once with current_call_id
\* cleared, whatever terminate_call answers; and the session goes on after
\* an interrupted call (the loop is neither ended nor left on an error).
C14_InterruptHandled ==
    [][/\ (phone_call'.interrupted /\ ~phone_call.interrupted) =>
            /\ phone_call'.terminates = 1
            /\ phone_call'.pc = "outcome"
            /\ phone_call'.outcomes = 1
            /\ phone_call'.current_call_id = ""
       /\ phone_call'.interrupted => session' = "loop"]_vars

\* The document store is asked for: USE_MONGODB is true in the environment
\* and the config file does not say otherwise.
StoreRequested ==
    /\ Lower(config.env.USE_MONGODB) = "true"
    /\ config.file_state = "present" => config.file.use_mongodb # "false"

\* C15: when the document store is asked for but its driver is missing or
\* the store cannot be reached, setting the adapter up raises nothing, the
\* adapter ends up serving from the flat-file backend with its indicator
\* (config.use_mongodb) false; and the indicator is only ever true together
\* with a document-store handle.
C15_BackendFallback ==
    /\ adapter.use_mongodb => adapter.mongodb
    /\ (/\ StoreRequested
        /\ adapter.state # "unloaded"
        /\ ~adapter.driver \/ adapter.state = "constructed")
         => /\ ~adapter.raised
            /\ (adapter.state = "constructed" /\ adapter.store # "ok") =>
                 /\ adapter.served_by = "csv"
                 /\ ~adapter.use_mongodb
            /\ ~adapter.driver =>
                 /\ adapter.state = "constructed"
                 /\ adapter.served_by = "csv"

\* C16: a setting given both by an environment variable and by the config
\* file comes out of load_database_config with the environment's value.
C16_EnvOverrides ==
    (config.loaded /\ config.file_state = "present") =>
       /\ (config.env.USE_MONGODB # "unset" /\ config.file.use_mongodb # "unset")
            => config.result.use_mongodb = (Lower(config.env.USE_MONGODB) = "true")
       /\ (config.env.MONGODB_URI # "unset" /\ config.file.mongodb_uri # "unset")
            => config.result.mongodb_uri = config.env.MONGODB_URI
       /\ (config.env.DATABASE_NAME # "unset" /\ config.file.database_name # "unset")
            => config.result.database_name = config.env.DATABASE_NAME


---------------------------------------------------------------------------
(* Properties of the drain (process_queue) and of the queue file.          *)

\* The operations a drain started with whose target is among no live record.
MootOps == {i \in 1..Len(queue_file) :
              LookupIndex(data', queue_file[i].record_id) = 0}

\* The operations a drain started with for which the calendar was asked and
\* answered with success.
SucceededOps == {i \in 1..Len(queue_file) :
                   /\ tried'[queue_file[i].qid] = tried[queue_file[i].qid] + 1
                   /\ removed'[queue_file[i].qid] = "done"}

\* C17: in every drain a queued operation whose target contact id is not
\* among the live contacts is removed as moot: the calendar is not asked for
\* it, it is not counted as a failed attempt (it is not given up as failed)
\* and it is not kept for a later drain.
C17_MootDiscarded ==
    [][last'.op = "startup" =>
         \A i \in MootOps :
            /\ queue_file[i].qid \notin QueuedIds'
            /\ tried'[queue_file[i].qid] = tried[queue_file[i].qid]
            /\ removed'[queue_file[i].qid] = "done"]_vars

\* C18: in a drain an operation whose calendar call succeeds leaves the queue
\* and its result is on the target record (the event id in the field of a
\* create, the field blank after a cancel), and the value the drain returns
\* is the number of operations whose calendar call succeeded.
C18_SuccessApplied ==
    [][last'.op = "startup" =>
         /\ \A i \in SucceededOps :
              LET operation == queue_file[i]
                  idx == LookupIndex(data', operation.record_id)
              IN  /\ operation.qid \notin QueuedIds'
                  /\ idx > 0
                  /\ operation.operation = "create_callback" =>
                        data'[idx].gcal_callback_event_id \in EventIds
                  /\ operation.operation = "create_meeting" =>
                        data'[idx].gcal_meeting_event_id \in EventIds
                  /\ (operation.operation = "cancel"
                        /\ operation.data.event_type = "callback") =>
                        data'[idx].gcal_callback_event_id = ""
                  /\ (operation.operation = "cancel"
                        /\ operation.data.event_type = "meeting") =>
                        data'[idx].gcal_meeting_event_id = ""
         /\ last'.returned = Cardinality(SucceededOps)]_vars

---------------------------------------------------------------------------
(* Properties of the session as a whole.                                   *)

\* C20: no sequence of operator actions on loaded contacts raises an error
\* that ends the session: no handler runs on a cursor outside the records,
\* also in the calendar's loop on one contact after bad_number or do_not_call
\* moved the cursor past its single record.
C20_NoFatalError == session # "error" /\ last.op # "index_error"


---------------------------------------------------------------------------
(* Properties of the confirmation prompts.                                 *)

\* The step is an operation that asked for a confirmation and did not get
\* it: a revert with a text other than YES, a promote or demote without
\* y / yes, a delete, callback or meeting whose prompt was declined.
Declined ==
    \/ last'.op \in {"revert", "revert_cancelled"} /\ last'.typed # "YES"
    \/ last'.op \in {"promote_cancelled", "demote_cancelled"}
    \/ last'.op \in {"delete", "callback", "meeting"} /\ ~last'.ok

\* C21: an operation that is not confirmed leaves the records, the stored
\* contacts, the ledger, the archive, the retry queue and the cursor (the
\* index of the record the loop shows) as they were.
C21_DeclinedChangesNothing ==
    [][Declined =>
         /\ data' = data
         /\ db_contacts' = db_contacts
         /\ csv_file' = csv_file
         /\ edit_history' = edit_history
         /\ archive' = archive
         /\ operations' = operations
         /\ queue_file' = queue_file
         /\ current_index' = IF editing >= 0 THEN current_index
                             ELSE DisplayIndex(data, current_index)]_vars

\* A revert has just been refused for want of the text YES, on a record with
\* an edit in the ledger.
C21_Witness ==
    /\ last.op = "revert_cancelled"
    /\ last.typed = "yes"
    /\ edit_history # <<>>


---------------------------------------------------------------------------
(* Properties of the notes field.                                          *)

\* C22: notes are append-only: a step that changes a record's notes keeps
\* the notes it had as a prefix and appends one entry stamped with the
\* current time; no step removes or rewrites an entry.
C22_NotesAppendOnly ==
    [][\A i \in 1..Len(data) :
         (i <= Len(data') /\ data'[i].notes # data[i].notes) =>
            /\ Len(data'[i].notes) = Len(data[i].notes) + 1
            /\ SubSeq(data'[i].notes, 1, Len(data[i].notes)) = data[i].notes
            /\ data'[i].notes[Len(data'[i].notes)][1] = today]_vars


---------------------------------------------------------------------------
(* Properties of the stored contact set.                                   *)

\* C23: contacts are never hard-deleted: a confirmed delete leaves the record
\* in the list with status deleted and appends its copy to the archive, and
\* no step leaves fewer contacts in the contact file or in the store than
\* there were.
C23_NeverHardDeleted ==
    [][/\ Len(csv_file') >= Len(csv_file)
       /\ Cardinality(DOMAIN db_contacts') >= Cardinality(DOMAIN db_contacts)
       /\ (last'.op = "delete" /\ last'.ok) =>
            LET idx == DisplayIndex(data, current_index)
            IN  /\ Len(data') = Len(data)
                /\ data'[idx + 1].status = STATUS_DELETED
                /\ archive' = Append(archive, ArchiveRow(data'[idx + 1]))]_vars


---------------------------------------------------------------------------
(* Properties of the attempts counter.                                     *)

\* C30: the attempts counter of a queued operation grows only when the
\* calendar was asked for it: an operation a drain did not ask the calendar
\* for is afterwards queued with the attempts it had (or was discarded as
\* moot), so a drain without a calendar client leaves the queue as it was
\* and gives up nothing.
C30_AttemptsCountInvocations ==
    [][last'.op = "startup" =>
         \A i \in 1..Len(queue_file) :
            LET operation == queue_file[i]
            IN  tried'[operation.qid] = tried[operation.qid] =>
                   \/ removed'[operation.qid] = "done"
                   \/ \E k \in 1..Len(operations') :
                        /\ operations'[k].qid = operation.qid
                        /\ operations'[k].attempts = operation.attempts]_vars


---------------------------------------------------------------------------
(* Properties of the main loop and its views.                              *)

TerminalViews == {"clients", "cemetery"}

OutcomeOps == {"bad_number", "no_answer", "do_not_call", "callback", "meeting",
               "promote", "demote", "delete"}

\* C24: the call outcomes and the manual promote, demote and delete are
\* applied only to contacts whose status is not terminal: a record whose
\* status is terminal keeps it through every one of them.
C24_TerminalUntouched ==
    [][(loop_pc = "input" /\ last'.op \in OutcomeOps) =>
         \A i \in 1..Len(data) :
            data[i].status \in TERMINAL_STATUSES =>
               /\ i <= Len(data')
               /\ data'[i].status = data[i].status]_vars

\* C28: when the cursor is past the last record the loop takes it back to the
\* first record the view does not skip and goes on; an iteration ends at the
\* prompt on a record at a valid index (the one the skip and the reset
\* select from the cursor the iteration began with) or ends the loop, which
\* happens, while running, only in a view that skips terminal records all
\* of whose records are terminal; no iteration goes on for ever without
\* reaching the prompt.
C28_LoopCycles ==
    /\ [](loop_pc = "input" =>
            /\ current_index < Len(data)
            /\ last.op = "loop"
            /\ current_index =
                 IF current_view \notin TerminalViews
                 THEN DisplayIndex(data, last.index)
                 ELSE IF last.index >= Len(data) THEN 0 ELSE last.index)
    /\ []((loop_pc = "done" /\ running) =>
            /\ current_view \notin TerminalViews
            /\ \A i \in 1..Len(data) : data[i].status \in TERMINAL_STATUSES)
    /\ (loop_pc = "top" ~> loop_pc \in {"input", "done"})

\* The loop has cycled: the iteration began with the cursor past the last
\* record and stands at the prompt.
C28_Witness ==
    /\ loop_pc = "input"
    /\ last.op = "loop"
    /\ last.index >= Len(data)

---------------------------------------------------------------------------
(* Properties of the two backends' priority views.                         *)

ResultSet == {view_result[i] : i \in 1..Len(view_result)}

\* C25: for the same contacts the flat-file backend and the document-store
\* backend return the same set of contacts for each priority view.
C25_BackendsAgree ==
    last.op \in {"view", "view_mongodb"} =>
       ResultSet = SeqToSet(GetPriorityViewCsv(contacts_data, view_type, today))

\* C26: classifying under a view the contacts that the view returned gives
\* the same contacts again.
C26_ClassifyIdempotent ==
    last.op = "view" =>
       GetPriorityViewDataOn("csv", view_result, {}, view_type, today) = view_result

\* A view has returned some of the contacts and left others out.
C26_Witness ==
    /\ last.op = "view"
    /\ view_result # <<>>
    /\ Len(view_result) < Len(contacts_data)

\* Does the date text count for the view: it is read as a date, and the date
\* is the day of the view (today) or before it (overdue).
Counts(text, view_name) ==
    /\ ParseDay(text) # 0
    /\ IF view_name = "today" THEN ParseDay(text) = today ELSE ParseDay(text) < today

\* C27: an unreadable callback_on or meeting_at never keeps the flat-file
\* today and overdue views from answering: the field counts for nothing and
\* the contact is returned exactly when its other date field counts.
C27_MalformedDateIgnored ==
    (last.op = "view" /\ view_type \in {"today", "overdue"}) =>
       \A i \in 1..Len(contacts_data) :
          (contacts_data[i] \in ResultSet) <=>
             \/ Counts(contacts_data[i].callback_on, view_type)
             \/ Counts(contacts_data[i].meeting_at, view_type)

\* The today view has returned a contact whose callback_on is unreadable,
\* for its meeting of today.
C27_Witness ==
    /\ last.op = "view"
    /\ view_type = "today"
    /\ \E i \in 1..Len(view_result) :
          /\ view_result[i].callback_on = "soon"
          /\ ParseDay(view_result[i].meeting_at) = today


---------------------------------------------------------------------------
(* Properties of the ledger against the contact it describes.              *)

\* The record on display that a ledger entry is about, as positions of data.
RecordsOf(entry) ==
    {i \in 1..Len(data) : data[i].external_row_id = entry.contact_id}

\* C31: a ledger entry (field, old, new) is written only when the contact's
\* field was changed from old to new; a change whose update fails leaves no
\* entry.
C31_LedgerOnlyOnChange ==
    [][Len(edit_history') > Len(edit_history) =>
         LET e == edit_history'[Len(edit_history')]
         IN  \A i \in RecordsOf(e) :
                /\ data[i][e.field] = e.old_value
                /\ data'[i][e.field] = e.new_value]_vars

\* C32: the old_value of every ledger entry is the value the field held just
\* before the entry's change, also when the entry is written by reverting an
\* entry that is not the latest change of the field.
C32_OldValueIsPrior ==
    [][Len(edit_history') > Len(edit_history) =>
         LET e == edit_history'[Len(edit_history')]
         IN  \A i \in RecordsOf(e) : data[i][e.field] = e.old_value]_vars


\* C33: whichever way a contact's status becomes bad_number, do_not_call or
\* deleted (call outcome, delete, quick-edit status, field edit), the archive
\* holds a copy of the contact with that status, and a bad_number or
\* do_not_call contact holds no calendar event id.
C33_ArchivedAndCancelled ==
    [][\A i \in 1..Len(data) :
          (/\ Len(data') = Len(data)
           /\ data'[i].status # data[i].status
           /\ data'[i].status \in {STATUS_BAD_NUMBER, STATUS_DO_NOT_CALL,
                                   STATUS_DELETED}) =>
             /\ \E k \in 1..Len(archive') :
                   /\ archive'[k].record.external_row_id = data'[i].external_row_id
                   /\ archive'[k].record.status = data'[i].status
             /\ data'[i].status # STATUS_DELETED =>
                   /\ data'[i].gcal_callback_event_id = ""
                   /\ data'[i].gcal_meeting_event_id = ""]_vars


---------------------------------------------------------------------------
(* Properties of moving through the records.                               *)

\* The positions before idx whose record the main loop does not skip.
EarlierShown(idx) ==
    {j \in 0..(idx - 1) : data[j + 1].status \notin TERMINAL_STATUSES}

\* C34: 'k' on the record displayed, followed by the main loop's skip of
\* terminal records, displays the nearest earlier record that is not
\* terminal, also when terminal records lie in between.
C34_PrevReachesEarlier ==
    [][(last'.op = "prev") =>
         LET idx == DisplayIndex(data, current_index)
         IN  EarlierShown(idx) # {} =>
               /\ DisplayIndex(data', current_index') \in EarlierShown(idx)
               /\ \A j \in EarlierShown(idx) :
                     j <= DisplayIndex(data', current_index')]_vars


\* C35: the overdue view is ordered by days overdue descending with ties by
\* company name ascending, the today view by earliest scheduled time
\* ascending, every other view by company name ascending.
C35_ViewOrdering ==
    (last.op = "switch_view" /\ last.ok) =>
       \A i \in 1..Len(data) : \A j \in 1..Len(data) :
          (i < j) =>
             IF current_view = "overdue"
             THEN \/ DaysOverdue(data[i], today) > DaysOverdue(data[j], today)
                  \/ /\ DaysOverdue(data[i], today) = DaysOverdue(data[j], today)
                     /\ CompanyRank(data[i]) <= CompanyRank(data[j])
             ELSE IF current_view = "today"
             THEN EarliestTime(data[i], today) <= EarliestTime(data[j], today)
             ELSE CompanyRank(data[i]) <= CompanyRank(data[j])


---------------------------------------------------------------------------
(* Properties of the flat-file adapter.                                    *)

\* C36: get_contacts on the flat-file backend returns the stored contacts
\* filtered by status, sorted by the key in the direction asked, without the
\* first skip rows and cut to limit rows, and leaves the stored order of the
\* contacts as it was.
C36_GetContactsPure ==
    [][(last'.op = "get_contacts") =>
         /\ contacts_data' = contacts_data
         /\ view_result' =
               GetContactsCsvSorted(contacts_data, csv_headers,
                                    last'.status_filter, last'.limit, last'.skip,
                                    last'.sort_by, last'.sort_direction).result]_vars

\* C37: after successful updates the record carries the stamp, and save_data
\* succeeds and writes every contact with its updated fields.
C37_SaveAfterUpdate ==
    /\ [][(last'.op = "update_status" /\ contacts_data' # contacts_data) =>
            \E i \in 1..Len(contacts_data') :
               /\ contacts_data'[i] # contacts_data[i]
               /\ contacts_data'[i].last_updated # ""]_vars
    /\ [](last.op = "save_data" => (last.ok /\ csv_file = contacts_data))


---------------------------------------------------------------------------
(* Properties of the calendar events a contact holds.                      *)

\* The calendar was asked to cancel the event and did.
Cancelled(calls, event_id) ==
    \E k \in 1..Len(calls) : calls[k] = CalCall("cancel", event_id, "ok")

\* C38: a contact never loses the reference to a calendar event that is
\* still live: when a handler replaces or clears the callback (meeting)
\* event id a contact holds, the calendar has cancelled that event.
C38_OneLiveEvent ==
    [][\A i \in 1..Len(data) :
          (Len(data') = Len(data)) =>
             /\ (/\ data[i].gcal_callback_event_id # ""
                 /\ data'[i].gcal_callback_event_id # data[i].gcal_callback_event_id)
                   => Cancelled(last'.cal, data[i].gcal_callback_event_id)
             /\ (/\ data[i].gcal_meeting_event_id # ""
                 /\ data'[i].gcal_meeting_event_id # data[i].gcal_meeting_event_id)
                   => Cancelled(last'.cal, data[i].gcal_meeting_event_id)]_vars


---------------------------------------------------------------------------
(* Properties of an overdue callback.                                      *)

\* The case of the claim: a contact that is not closed, whose callback_on
\* lies before the day of the view and that has no meeting on that day.
OverdueCallback(record) ==
    /\ record.status \notin TERMINAL_STATUSES
    /\ ParseDay(record.callback_on) # 0
    /\ ParseDay(record.callback_on) < today
    /\ ParseDay(record.meeting_at) # today

\* C39: such a contact is in the overdue view and not in the today view, and
\* its display counts as days overdue the days from callback_on to the day
\* of the view.
C39_OverdueCallback ==
    /\ (last.op = "view" /\ view_type \in {"overdue", "today"}) =>
          \A i \in 1..Len(contacts_data) :
             OverdueCallback(contacts_data[i]) =>
                ((view_type = "overdue") <=>
                    (\E k \in 1..Len(view_result) : view_result[k] = contacts_data[i]))
    /\ (last.op = "display" /\ OverdueCallback(data[last.index + 1])) =>
          /\ last.urgency.kind = "overdue"
          /\ last.urgency.days = today - ParseDay(data[last.index + 1].callback_on)

\* The overdue view shows a contact whose callback was five days ago and
\* whose meeting was three days ago: 5 days overdue.
C39_Witness ==
    /\ last.op = "display"
    /\ current_view = "overdue"
    /\ data[last.index + 1].callback_on = IsoDate(10)
    /\ data[last.index + 1].meeting_at = IsoDateTime(12)
    /\ last.urgency.days = 5


---------------------------------------------------------------------------
(* Properties of the clients and cemetery views.                           *)

\* The stored contacts a view is made of.
ViewMembers(view_name) ==
    {id \in DOMAIN db_contacts :
        CASE view_name = "clients"  -> db_contacts[id].status = STATUS_CLOSE_WON
          [] view_name = "cemetery" -> db_contacts[id].status = STATUS_CLOSE_LOST
          [] OTHER                  -> TRUE}

=============================================================================
